---- MODULE Spec2Model ----
(***************************************************************************)
(* Verification model of the privacy-filter streaming pipeline             *)
(* (archive/privacy-filter/backend/filter).                                *)
(*                                                                         *)
(* The module holds one state machine per component, each with its own     *)
(* specification over the same variables:                                  *)
(*   QueueSpec     BoundedQueue (misc/queues.py): producers, consumers and *)
(*                 clear() interleaved at the granularity of the calls on  *)
(*                 the underlying queue.Queue and of the _lock sections.   *)
(*   ConsentSpec   ConsentState + the Video Processor's capture path       *)
(*                 (misc/state.py, threads/video.py).                      *)
(*   LifeSpec      BaseThread.run / stop, ThreadStateManager and the       *)
(*                 Health Monitor (threads/base.py, misc/state.py,         *)
(*                 threads/monitor.py).                                    *)
(* A component's actions leave the other components' variables unchanged.  *)
(***************************************************************************)
EXTENDS Integers, Sequences, FiniteSets, TLC

(***************************************************************************)
(* Bounds of the model.                                                    *)
(***************************************************************************)
MaxCap == 2          \* largest queue capacity explored
MaxPuts == 3         \* put calls, all producers together
MaxEvents == 2       \* set_consent calls
MaxFrames == 3       \* video frames processed
MaxHealthTimeout == 2 \* largest configured THREAD_HEALTH_TIMEOUT, in clock ticks
MaxConnections == 2  \* input connections accepted
MaxDecoded == 2      \* video frames decoded, all connections together
MaxQueued == 1       \* capacity of the video queues
MaxProb == 2         \* largest speech probability the VAD model returns
MaxChunks == 6       \* audio chunks the VAD is given
MaxStopSilence == 2  \* largest configured stop silence, in chunks
MaxMinSegment == 3   \* largest configured minimum segment length, in chunks
MaxAudio == 2        \* audio frames decoded, all connections together
MaxSegments == 12    \* speech segments queued for the Speech Worker
MaxExternal == 2     \* external writes and deletions in the consent directory
MaxCaptures == 1     \* consent captures by the Video Processor
MaxWorkers == 2      \* Speech Workers pulling from one speech queue
MaxCalls == 2        \* calls of initiate_shutdown
MaxCallbacks == 2    \* registered cleanup callbacks
MaxFaces == 2        \* faces detected in the frame

Producers == {"p1", "p2"}
Strategies == {"BLOCK", "DROP_NEWEST", "DROP_OLDEST"}

\* worker stages, in the order of Pipeline.threads
StageOrder == <<"s1", "s2">>
Stages == {StageOrder[i] : i \in 1..Len(StageOrder)}
\* what a stage's setup() and process_iteration() do
Profiles == {"ok", "setup_raises", "iter_raises"}
\* BaseThread.heartbeat_interval (threads/base.py:17): the unit of the model's clock
HeartbeatInterval == 1

\* the queue depth above which _transcribe_segment drops a segment
\* (threads/speech_worker.py:71)
QueueDepthLimit == 10

\* FACE_DISTANCE_THRESHOLD (misc/face_recognizer.py:12), in tenths
FACE_DISTANCE_THRESHOLD == 5

\* SPEECH_QUEUE_SIZE (misc/config.py:47): capacity of the speech queue
SPEECH_QUEUE_SIZE == 20

\* speaker names the consent detector can report; "none" stands for None
Names == {"Alice", "bob"}
None == "none"

\* consent image files; the name in a file's name stands for the record's name
Calls == 1..MaxCalls

\* the mutexes of ConsentState (state.py line 14), ConnectionState (line 71),
\* ThreadStateManager (line 131), MetricsCollector (metrics.py line 14) and
\* FaceRecognizer (face_recognizer.py line 20)
Mutexes == {"consent", "connection", "states", "metrics", "faces"}

\* threading.RLock: ConnectionState, ThreadStateManager, MetricsCollector
Reentrant == {"connection", "states", "metrics"}

\* one thread of each kind that uses the structures: the Video Processor, a Speech
\* Worker, the Input Demuxer (the Audio Processor, the VAD and the Output Muxer use
\* a subset of its structures), the consent watcher and the Pipeline's main thread
Threads == {"video", "speech", "input", "watcher", "pipeline"}

\* the structures whose methods each thread calls (threads/video.py lines 48, 60,
\* 76, 95, 110, 148 and face_detector.py lines 171-175; threads/speech_worker.py
\* lines 107, 115; threads/input.py lines 96, 127, 173; consent_manager.py lines 65,
\* 162; pipeline.py lines 174-178 and 200-211; every stage: base.py lines 27-54)
Uses(t) ==
    IF t = "video" THEN {"consent", "connection", "states", "metrics", "faces"}
    ELSE IF t = "speech" THEN {"consent", "states", "metrics"}
    ELSE IF t = "input" THEN {"connection", "states", "metrics"}
    ELSE IF t = "watcher" THEN {"faces"}
    ELSE {"states", "metrics"}

\* the threads that wait on a BoundedQueue (video.py lines 51, 59; speech_worker.py
\* lines 52, 123; input.py lines 172-189)
QueueUsers == {"video", "speech", "input"}

\* the threads that call an inference oracle (video.py lines 90, 129; speech_worker.py
\* lines 81, 104; consent_manager.py line 105)
OracleUsers == {"video", "speech", "watcher"}

\* the Speech Workers created by pipeline.py lines 113-120 (WHISPER_THREADS of them)
Workers == 1..MaxWorkers

\* the segments that can be put into the speech queue
PoolItems == Producers \X (1..MaxPuts)
Callbacks == 1..MaxCallbacks
Files == {"f1", "f2"}

\* face encodings, as points on a line in tenths: two at exactly the threshold
\* distance, and one just beyond it
Encodings == {0, FACE_DISTANCE_THRESHOLD, FACE_DISTANCE_THRESHOLD + 1}

Range(s) == {s[i] : i \in 1..Len(s)}
Max(a, b) == IF a >= b THEN a ELSE b
Min(a, b) == IF a <= b THEN a ELSE b

VARIABLES
    \* ---- BoundedQueue (misc/queues.py) ----
    strategy,        \* self.strategy
    maxsize,         \* self.maxsize
    queue,           \* self._queue, oldest item first
    dropped_count,   \* self._dropped_count
    lock,            \* holder of self._lock: "free", a producer, or "clear"
    ppc,             \* per producer: position inside put()
    cpc,             \* position of the thread calling clear()
    \* history of the calls (what callers observed)
    offered,         \* per producer: number of put calls started; item k of p is <<p, k>>
    rets,            \* per producer: return values of its finished put calls
    consumed,        \* items returned by get / get_nowait, in dequeue order
    evicted,         \* items removed by DROP_OLDEST eviction, with the fullness seen
    cleared,         \* items removed by clear()
    solo,            \* no put step has run after a get or clear step
    \* ---- ConsentState (misc/state.py) and the capture path (threads/video.py) ----
    has_consent,         \* ConsentState.has_consent
    speaker_name,        \* ConsentState.speaker_name
    capture_next_frame,  \* ConsentState.capture_next_frame
    consented_names,     \* ConsentState.consented_names
    nEvents,             \* number of set_consent calls so far (consent event ids 1..nEvents)
    flagEvent,           \* the consent event whose set_consent last raised the flag
    vpc,                 \* Video Processor: position inside _process_frame
    vframe,              \* Video Processor: number of the frame being processed
    vfile,               \* capture in progress: name the image file was saved under
    entered,             \* <<frame, event>>: frames that entered the capture path
    captureLog,          \* finished registrations: [frame, file, reg]
    \* ---- worker lifecycle (threads/base.py), ThreadStateManager (misc/state.py),
    \*      Health Monitor (threads/monitor.py), Pipeline start/stop (misc/pipeline.py) ----
    health_timeout,      \* THREAD_HEALTH_TIMEOUT of the configuration snapshot
    threads,             \* Pipeline.threads: the worker stages, in start order
    profile,             \* per stage: behaviour of its setup() / process_iteration()
    states,              \* ThreadStateManager._states; "unregistered" = no entry
    health_age,          \* now - ThreadStateManager._health_timestamps[name], counted
                         \* up to health_timeout (0 when no entry)
    tpc,                 \* per stage: position inside BaseThread.run
    heartbeat_age,       \* per stage: now - BaseThread._last_heartbeat, counted up
                         \* to HeartbeatInterval
    stop_event,          \* per stage: BaseThread._stop_event
    shutdown,            \* ShutdownHandler._shutdown_event
    plpc,                \* Pipeline thread: position in start / wait / stop
    pli,                 \* Pipeline thread: index into Pipeline.threads
    mpc,                 \* Health Monitor: position in its loop
    mtodo,               \* Health Monitor: names of the snapshot not yet checked
    unhealthy_threads,   \* HealthMonitorThread.unhealthy_threads
    all_states,          \* _check_thread_health: the snapshot taken by get_all_states()
    newly_unhealthy,     \* _check_thread_health: the names to warn about
    recovered,           \* _check_thread_health: the names to report as recovered
    \* history of the calls run() made
    setup_calls,         \* per stage: calls of setup() so far
    cleanup_calls,       \* per stage: calls of cleanup() so far
    watcher_stopped,     \* Pipeline.stop has called consent_manager.stop_monitoring()
    join_result,         \* per stage: what Pipeline.stop logged after its join
    unhealthy_before,    \* unhealthy_threads when the last health check started
    alerts,              \* what the last finished health check logged, per level
    \* ---- the video path: Input Demuxer (threads/input.py), Video Processor
    \*      (threads/video.py), Output Muxer (threads/output.py), ConnectionState
    \*      (misc/state.py), Pipeline._cleanup (misc/pipeline.py) ----
    input_connected,     \* ConnectionState._input_connected
    output_connected,    \* ConnectionState._output_connected
    stream_metadata,     \* ConnectionState._stream_metadata: the flags that are true
    video_input_queue,   \* Pipeline.video_input_queue: connection number of each frame
    video_output_queue,  \* Pipeline.video_output_queue: connection number of each frame
    in_container,        \* InputThread.in_container is set
    connection,          \* number of input connections accepted so far
    decoded,             \* number of video frames decoded so far
    ipc,                 \* Input Demuxer: position in run / process_iteration
    vppc,                \* Video Processor: position in run / process_iteration
    video_data,          \* Video Processor: the frame it holds (0 = none)
    out_container,       \* OutputMuxerThread.out_container is set
    out_metadata,        \* OutputMuxerThread: metadata read in the current iteration
    out_stream_metadata, \* OutputMuxerThread.stream_metadata
    opc,                 \* Output Muxer: position in run / process_iteration
    out_video_data,      \* Output Muxer: the frame it holds (0 = none)
    out_seen_connected,  \* Output Muxer: the iteration saw input connected
    kpc,                 \* thread running Pipeline._cleanup: position
    connected_at_shutdown, \* input and output were connected when shutdown was requested
    vad_queue,           \* Pipeline.vad_queue: connection number of each audio frame
    audio_decoded,       \* number of audio frames decoded so far
    \* ---- VAD (threads/vad.py); one chunk is the unit of samples and of stream time ----
    start_speech_prob,   \* VADThread.start_speech_prob
    keep_speech_prob,    \* VADThread.keep_speech_prob
    stop_silence_samples, \* VADThread.stop_silence_samples, in chunks (rounded up)
    min_segment_samples, \* VADThread.min_segment_samples, in chunks (rounded up)
    in_speech,           \* VADThread.in_speech
    silence_samples,     \* VADThread.silence_samples, in chunks
    speech_buffer,       \* VADThread.speech_buffer: number of chunks it holds
    stream_time_offset,  \* VADThread.stream_time_offset, in chunk durations
    speech_start_time,   \* VADThread.speech_start_time
    segments_produced,   \* VADThread.segments_produced
    speech_queue,        \* Pipeline.speech_queue: the segments queued
    probs,               \* history: the probability the VAD model gave each chunk
    \* ---- the speech path: VAD iterations (threads/vad.py) on the audio of the
    \*      Input Demuxer, Speech Worker (threads/speech_worker.py) ----
    vadpc,               \* VAD: position in run / process_iteration
    vad_audio_data,      \* VAD: the audio frame it holds (0 = none)
    ring_buffer,         \* VADThread.ring_buffer: connections whose samples it holds
    buffer_connections,  \* connections whose samples VADThread.speech_buffer holds
    segment_connections, \* history: per queued segment, the connections of its audio
    flushed,             \* the segment VADThread.cleanup queued, if any (a sequence)
    swpc,                \* Speech Worker: position in run / process_iteration
    sw_segment,          \* Speech Worker: the segment it holds, if any (a sequence)
    sw_last,             \* history: what the last _transcribe_segment call did, if any
    sw_done,             \* history: the segments given to _transcribe_segment
    \* ---- the allow-list: FaceRecognizer (misc/face_recognizer.py), ConsentManager
    \*      (misc/consent_manager.py), the capture path of the Video Processor
    \*      (threads/video.py), the consent directory ----
    consented_faces,     \* FaceRecognizer.consented_faces: (file_path, encoding) records
    on_disk,             \* the consent image files that exist in CONSENT_DIR
    image,               \* per file: the encoding its image yields ({} = none)
    changes,             \* the changes watch() has still to yield, oldest first
    external_ops,        \* number of external writes and deletions so far
    wpc,                 \* consent watcher: position in _handle_file_change
    w_change,            \* consent watcher: the change being handled, if any
    w_encoding,          \* consent watcher: the encoding _extract_face_features gave
    capture_pc,          \* Video Processor: position in the capture path
    capture_file,        \* Video Processor: the file save_head_image wrote, if any
    capture_encoding,    \* Video Processor: the encoding extract_feature gave
    captures,            \* number of captures so far
    frame_out,           \* history: per face of the frame, its encoding and outcome
    \* ---- ShutdownHandler (misc/shutdown.py) ----
    shutdown_event,    \* ShutdownHandler._shutdown_event
    shutdown_in_progress,    \* ShutdownHandler._shutdown_in_progress
    handler_lock,    \* holder of ShutdownHandler._lock: 0 (free) or a call
    cleanup_callbacks,    \* ShutdownHandler._cleanup_callbacks, in registration order
    raising,    \* the registered callbacks that raise when called
    callpc,    \* per initiate_shutdown call: position inside it
    main_stack,    \* the calls in progress on the main thread, innermost last
    executing,    \* per call: position of the _execute_cleanup thread it started (0 = none)
    ran,   \* history: the callbacks invoked, in order
    \* ---- the Speech Workers as a pool (pipeline.py lines 113-120) ----
    pool_pc,    \* where each Speech Worker of the pool is
    pool_segment,    \* the segment each worker holds, if any
    pool_stop,    \* the stop event of the workers is set
    hand_offs,    \* history: how many times each segment was returned by a get of a worker
    transcriptions,    \* history: how many times each segment was transcribed
    consents,   \* history: how many set_consent calls each segment caused
    \* ---- the Video Processor and the frames it forwards (threads/video.py) ----
    disable_video_processing,    \* DISABLE_VIDEO_PROCESSING (misc/config.py lines 65-67)
    face_detector,    \* the Video Processor has a FaceDetector
    forwarded,   \* history: the frames put on the video output queue, [frame, processed]
    \* ---- the mutexes of the shared structures and the threads that use them ----
    mutex_owner,    \* the thread that holds each mutex, or "free"
    mutex_count,    \* how many times its owner has acquired it (re-entrant locks)
    lock_pc,    \* what each thread is doing: outside, waiting, inside, queue, oracle
    wants    \* the mutex a waiting thread waits for, or "none"

queueVars == <<strategy, maxsize, queue, dropped_count, lock, ppc, cpc,
               offered, rets, consumed, evicted, cleared, solo>>

consentVars == <<has_consent, speaker_name, capture_next_frame, consented_names,
                 nEvents, flagEvent, vpc, vframe, vfile, entered, captureLog>>

lifeVars == <<health_timeout, threads, profile, states, health_age, tpc, heartbeat_age,
              stop_event, shutdown, plpc, pli, mpc, mtodo, unhealthy_threads,
              all_states, newly_unhealthy, recovered, setup_calls, cleanup_calls,
              watcher_stopped, join_result, unhealthy_before, alerts>>

flowVars == <<input_connected, output_connected, stream_metadata, video_input_queue,
              video_output_queue, in_container, connection, decoded, ipc, vppc,
              video_data, out_container, out_metadata, out_stream_metadata, opc,
              out_video_data, out_seen_connected, kpc, connected_at_shutdown,
              vad_queue, audio_decoded>>

vadVars == <<start_speech_prob, keep_speech_prob, stop_silence_samples,
             min_segment_samples, in_speech, silence_samples, speech_buffer,
             stream_time_offset, speech_start_time, segments_produced, speech_queue,
             probs>>

vadThreadVars == <<vadpc, vad_audio_data, ring_buffer, buffer_connections,
                   segment_connections, flushed>>

workerVars == <<swpc, sw_segment, sw_last, sw_done>>

speechVars == <<vadThreadVars, workerVars>>

allowVars == <<consented_faces, on_disk, image, changes, external_ops, wpc, w_change,
               w_encoding, capture_pc, capture_file, capture_encoding, captures,
               frame_out>>

shutVars == <<shutdown_event, shutdown_in_progress, handler_lock, cleanup_callbacks,
              raising, callpc, main_stack, executing, ran>>

poolVars == <<pool_pc, pool_segment, pool_stop, hand_offs, transcriptions, consents>>

videoVars == <<disable_video_processing, face_detector, forwarded>>

lockVars == <<mutex_owner, mutex_count, lock_pc, wants>>

vars == <<queueVars, consentVars, lifeVars, flowVars, vadVars, speechVars,
          allowVars,
          shutVars,
          poolVars,
          videoVars,
          lockVars>>

otherThanQueue == <<allowVars, consentVars, lifeVars, flowVars, vadVars, speechVars,
          shutVars,
          poolVars,
          videoVars,
          lockVars>>
otherThanConsent == <<queueVars, allowVars, lifeVars, flowVars, vadVars, speechVars,
          shutVars,
          poolVars,
          videoVars,
          lockVars>>
otherThanLife == <<queueVars, allowVars, consentVars, flowVars, vadVars, speechVars,
          shutVars,
          poolVars,
          videoVars,
          lockVars>>
otherThanFlow == <<queueVars, allowVars, consentVars, vadVars, speechVars,
          shutVars,
          poolVars,
          videoVars,
          lockVars>>
otherThanVad == <<queueVars, allowVars, consentVars, lifeVars, flowVars, speechVars,
          shutVars,
          poolVars,
          videoVars,
          lockVars>>
otherThanAllow == <<queueVars, consentVars, lifeVars, flowVars, vadVars, speechVars,
          shutVars,
          poolVars,
          videoVars,
          lockVars>>
otherThanShut == <<queueVars, allowVars, consentVars, lifeVars, flowVars, vadVars,
                   speechVars,
          poolVars,
          videoVars,
          lockVars>>

\* what the Video Processor's frame handling leaves alone, the consent state apart
otherThanVideo == <<queueVars, lifeVars, flowVars, vadVars, speechVars, allowVars,
                    shutVars, poolVars,
          lockVars>>

\* what the users of the mutexes leave alone
otherThanLocks == <<queueVars, consentVars, lifeVars, flowVars, vadVars, speechVars,
                    allowVars, shutVars, poolVars, videoVars>>

\* what the pool of Speech Workers leaves alone, the queue and the consent state apart
otherThanPool == <<lifeVars, flowVars, vadVars, speechVars, allowVars, shutVars,
          videoVars,
          lockVars>>

(***************************************************************************)
(* Each component as constructed, for the specifications of the others.    *)
(***************************************************************************)
\* BoundedQueue.__init__ with the defaults of its signature
QueueConstructed ==
    /\ strategy = "BLOCK"
    /\ maxsize = 1
    /\ queue = <<>>
    /\ dropped_count = 0
    /\ lock = "free"
    /\ ppc = [p \in Producers |-> "idle"]
    /\ cpc = "idle"
    /\ offered = [p \in Producers |-> 0]
    /\ rets = [p \in Producers |-> <<>>]
    /\ consumed = <<>>
    /\ evicted = <<>>
    /\ cleared = <<>>
    /\ solo = TRUE

\* ConsentState.__init__, the Video Processor between frames
ConsentConstructed ==
    /\ has_consent = FALSE
    /\ speaker_name = None
    /\ capture_next_frame = FALSE
    /\ consented_names = {}
    /\ nEvents = 0
    /\ flagEvent = 0
    /\ vpc = "idle"
    /\ vframe = 0
    /\ vfile = None
    /\ entered = {}
    /\ captureLog = {}

\* ThreadStateManager.__init__, BaseThread.__init__, HealthMonitorThread.__init__,
\* Pipeline.__init__: nothing registered, no thread started
LifeConstructed ==
    /\ states = [s \in Stages |-> "unregistered"]
    /\ health_age = [s \in Stages |-> 0]
    /\ tpc = [s \in Stages |-> "new"]
    /\ heartbeat_age = [s \in Stages |-> HeartbeatInterval]
    /\ stop_event = [s \in Stages |-> FALSE]
    /\ shutdown = FALSE
    /\ plpc = "starting"
    /\ pli = 1
    /\ mpc = "loop"
    /\ mtodo = {}
    /\ unhealthy_threads = {}
    /\ all_states = [s \in Stages |-> "unregistered"]
    /\ newly_unhealthy = {}
    /\ recovered = {}
    /\ setup_calls = [s \in Stages |-> 0]
    /\ cleanup_calls = [s \in Stages |-> 0]
    /\ watcher_stopped = FALSE
    /\ join_result = [s \in Stages |-> "none"]
    /\ unhealthy_before = {}
    /\ alerts = [warning |-> {}, info |-> {}, critical |-> {}]

\* ConnectionState.__init__, the queues of Pipeline.__init__, the __init__ of the
\* three stages of the video path: nothing connected, nothing queued
FlowConstructed ==
    /\ input_connected = FALSE
    /\ output_connected = FALSE
    /\ stream_metadata = {}
    /\ video_input_queue = <<>>
    /\ video_output_queue = <<>>
    /\ in_container = FALSE
    /\ connection = 0
    /\ decoded = 0
    /\ ipc = "loop"
    /\ vppc = "loop"
    /\ video_data = 0
    /\ out_container = FALSE
    /\ out_metadata = {}
    /\ out_stream_metadata = {}
    /\ opc = "loop"
    /\ out_video_data = 0
    /\ out_seen_connected = FALSE
    /\ kpc = "idle"
    /\ connected_at_shutdown = FALSE
    /\ vad_queue = <<>>
    /\ audio_decoded = 0

\* VADThread.__init__, vad.py lines 45-51: silent, nothing buffered, stream time 0
VadIdle ==
    /\ in_speech = FALSE
    /\ silence_samples = 0
    /\ speech_buffer = 0
    /\ stream_time_offset = 0
    /\ speech_start_time = 0
    /\ segments_produced = 0
    /\ speech_queue = <<>>
    /\ probs = <<>>

\* VADThread.__init__ with one configuration (start threshold below keep threshold,
\* as the defaults of vad.py lines 21-24 are)
VadConstructed ==
    /\ VadIdle
    /\ start_speech_prob = 0
    /\ keep_speech_prob = 1
    /\ stop_silence_samples = 1
    /\ min_segment_samples = 1

\* VADThread.__init__, vad.py lines 45-46, and SpeechWorkerThread.__init__,
\* speech_worker.py lines 25-31: the threads have not started, the buffers are empty
SpeechConstructed ==
    /\ vadpc = "loop"
    /\ vad_audio_data = 0
    /\ ring_buffer = {}
    /\ buffer_connections = {}
    /\ segment_connections = <<>>
    /\ flushed = <<>>
    /\ swpc = "loop"
    /\ sw_segment = <<>>
    /\ sw_last = <<>>
    /\ sw_done = {}

\* FaceRecognizer._init_database (face_recognizer.py lines 24-28) and
\* ConsentManager.__init__ (consent_manager.py lines 27-32) with an empty consent
\* directory: no records, no files, nothing pending
AllowConstructed ==
    /\ consented_faces = <<>>
    /\ on_disk = {}
    /\ image = [f \in Files |-> {}]
    /\ changes = <<>>
    /\ external_ops = 0
    /\ wpc = "watch"
    /\ w_change = <<>>
    /\ w_encoding = {}
    /\ capture_pc = "idle"
    /\ capture_file = <<>>
    /\ capture_encoding = {}
    /\ captures = 0
    /\ frame_out = <<>>

\* ShutdownHandler.__init__, shutdown.py lines 12-17, with Pipeline._cleanup registered
\* (pipeline.py line 147): flag clear, no shutdown in progress, no call made
\* VideoProcessingThread after setup() with video processing enabled (video.py lines
\* 37-40), no frame forwarded yet
VideoConstructed ==
    /\ disable_video_processing = FALSE
    /\ face_detector = TRUE
    /\ forwarded = <<>>

\* no mutex is held
LocksConstructed ==
    /\ mutex_owner = [m \in Mutexes |-> "free"]
    /\ mutex_count = [m \in Mutexes |-> 0]
    /\ lock_pc = [t \in Threads |-> "outside"]
    /\ wants = [t \in Threads |-> "none"]

PoolConstructed ==
    /\ pool_pc = [w \in Workers |-> "loop"]
    /\ pool_segment = [w \in Workers |-> <<>>]
    /\ pool_stop = FALSE
    /\ hand_offs = [x \in PoolItems |-> 0]
    /\ transcriptions = [x \in PoolItems |-> 0]
    /\ consents = [x \in PoolItems |-> 0]

ShutdownConstructed ==
    /\ shutdown_event = FALSE
    /\ shutdown_in_progress = FALSE
    /\ handler_lock = 0
    /\ cleanup_callbacks = <<1>>
    /\ raising = {}
    /\ callpc = [c \in Calls |-> "idle"]
    /\ main_stack = <<>>
    /\ executing = [c \in Calls |-> 0]
    /\ ran = <<>>

LifeIdle ==
    /\ LifeConstructed
    /\ health_timeout = 1
    /\ threads = StageOrder
    /\ profile = [s \in Stages |-> "ok"]

(***************************************************************************)
(* queue.Queue primitives as used by BoundedQueue.                         *)
(***************************************************************************)
\* queue.Queue.full(): qsize() >= maxsize (maxsize > 0)
Full(s) == Len(s) >= maxsize

\* self._queue.put_nowait(item) when there is room
Enqueue(s, x) == Append(s, x)

\* the put calls made so far, all producers together
RECURSIVE SumOver(_, _)
SumOver(f, S) == IF S = {} THEN 0
                 ELSE LET x == CHOOSE y \in S : TRUE IN f[x] + SumOver(f, S \ {x})
TotalOffered == SumOver(offered, Producers)
CanPut == TotalOffered < MaxPuts

\* the item the put in progress of producer p carries
Item(p) == <<p, offered[p]>>

ConsumerActive == consumed # <<>> \/ cleared # <<>> \/ cpc # "idle"

\* bookkeeping shared by every producer step
ProducerStep == solo' = (solo /\ ~ConsumerActive)

(***************************************************************************)
(* BoundedQueue.put                                                        *)
(***************************************************************************)
\* a producer calls put(item, timeout): the call is numbered, nothing else happens
\* until the first queue operation of the strategy's branch
Return(p, v) ==
    /\ rets' = [rets EXCEPT ![p] = Append(@, v)]
    /\ ppc' = [ppc EXCEPT ![p] = "idle"]

\* BLOCK, lines 28-34: self._queue.put(item, timeout): room -> enqueue, True;
\* otherwise wait on not_full. Every caller passes a finite timeout
\* (threads/input.py:172, threads/video.py:59, threads/vad.py:187).
PutBlock(p) ==
    /\ strategy = "BLOCK"
    /\ ppc[p] = "idle"
    /\ CanPut
    /\ offered' = [offered EXCEPT ![p] = @ + 1]
    /\ IF ~Full(queue)
         THEN /\ queue' = Enqueue(queue, <<p, offered[p] + 1>>)
              /\ Return(p, TRUE)
         ELSE /\ ppc' = [ppc EXCEPT ![p] = "b_wait"]
              /\ UNCHANGED <<queue, rets>>
    /\ ProducerStep
    /\ UNCHANGED <<strategy, maxsize, dropped_count, lock, cpc, consumed, evicted,
                   cleared>>
    /\ UNCHANGED otherThanQueue

\* (variant of PutBlockWake: the waiting put enqueues without room)
PutBlockWakeAnytime(p) ==
    /\ ppc[p] = "b_wait"
    /\ queue' = Enqueue(queue, Item(p))
    /\ Return(p, TRUE)
    /\ ProducerStep
    /\ UNCHANGED <<strategy, maxsize, dropped_count, lock, cpc, offered,
                   consumed, evicted, cleared>>
    /\ UNCHANGED otherThanQueue

\* the waiting put is woken with room in the queue: enqueue, return True
PutBlockWake(p) ==
    /\ ppc[p] = "b_wait"
    /\ ~Full(queue)
    /\ queue' = Enqueue(queue, Item(p))
    /\ Return(p, TRUE)
    /\ ProducerStep
    /\ UNCHANGED <<strategy, maxsize, dropped_count, lock, cpc, offered,
                   consumed, evicted, cleared>>
    /\ UNCHANGED otherThanQueue

\* (variant of PutBlockTimeout: the timeout is reported without looking at the queue)
PutBlockTimeoutAnytime(p) ==
    /\ ppc[p] = "b_wait"
    /\ Return(p, FALSE)
    /\ ProducerStep
    /\ UNCHANGED <<strategy, maxsize, queue, dropped_count, lock, cpc, offered,
                   consumed, evicted, cleared>>
    /\ UNCHANGED otherThanQueue

\* the timeout expires with the queue still full: queue.Full -> return False
PutBlockTimeout(p) ==
    /\ ppc[p] = "b_wait"
    /\ Full(queue)
    /\ Return(p, FALSE)
    /\ ProducerStep
    /\ UNCHANGED <<strategy, maxsize, queue, dropped_count, lock, cpc, offered,
                   consumed, evicted, cleared>>
    /\ UNCHANGED otherThanQueue

\* DROP_NEWEST, lines 36-40: put_nowait; True when accepted, queue.Full otherwise
PutDropNewest(p) ==
    /\ strategy = "DROP_NEWEST"
    /\ ppc[p] = "idle"
    /\ CanPut
    /\ offered' = [offered EXCEPT ![p] = @ + 1]
    /\ IF ~Full(queue)
         THEN /\ queue' = Enqueue(queue, <<p, offered[p] + 1>>)
              /\ Return(p, TRUE)
         ELSE /\ ppc' = [ppc EXCEPT ![p] = "dn_full"]
              /\ UNCHANGED <<queue, rets>>
    /\ ProducerStep
    /\ UNCHANGED <<strategy, maxsize, dropped_count, lock, cpc, consumed,
                   evicted, cleared>>
    /\ UNCHANGED otherThanQueue

\* (variant of PutDropNewestCount: the rejected item is not counted)
PutDropNewestUncounted(p) ==
    /\ ppc[p] = "dn_full"
    /\ lock = "free"
    /\ Return(p, FALSE)
    /\ ProducerStep
    /\ UNCHANGED <<strategy, maxsize, queue, dropped_count, lock, cpc, offered, consumed,
                   evicted, cleared>>
    /\ UNCHANGED otherThanQueue

\* DROP_NEWEST, lines 41-47: with self._lock: self._dropped_count += 1; return False
PutDropNewestCount(p) ==
    /\ ppc[p] = "dn_full"
    /\ lock = "free"
    /\ dropped_count' = dropped_count + 1
    /\ Return(p, FALSE)
    /\ ProducerStep
    /\ UNCHANGED <<strategy, maxsize, queue, lock, cpc, offered, consumed,
                   evicted, cleared>>
    /\ UNCHANGED otherThanQueue

\* DROP_OLDEST, lines 49-54: with self._lock: put_nowait; True when accepted,
\* otherwise the producer goes on inside the lock
PutDropOldest(p) ==
    /\ strategy = "DROP_OLDEST"
    /\ ppc[p] = "idle"
    /\ CanPut
    /\ lock = "free"
    /\ offered' = [offered EXCEPT ![p] = @ + 1]
    /\ IF ~Full(queue)
         THEN /\ queue' = Enqueue(queue, <<p, offered[p] + 1>>)
              /\ Return(p, TRUE)
              /\ UNCHANGED lock
         ELSE /\ ppc' = [ppc EXCEPT ![p] = "do_full"]
              /\ lock' = p
              /\ UNCHANGED <<queue, rets>>
    /\ ProducerStep
    /\ UNCHANGED <<strategy, maxsize, dropped_count, cpc, consumed, evicted,
                   cleared>>
    /\ UNCHANGED otherThanQueue

\* (variant of PutDropOldestEvict: the newest queued item is evicted)
PutDropOldestEvictNewest(p) ==
    /\ ppc[p] = "do_full"
    /\ IF queue # <<>>
         THEN /\ evicted' = Append(evicted, [item |-> queue[Len(queue)], full |-> Full(queue)])
              /\ queue' = SubSeq(queue, 1, Len(queue) - 1)
              /\ dropped_count' = dropped_count + 1
              /\ ppc' = [ppc EXCEPT ![p] = "do_put"]
              /\ UNCHANGED <<lock, rets>>
         ELSE /\ Return(p, FALSE)
              /\ lock' = "free"
              /\ UNCHANGED <<queue, dropped_count, evicted>>
    /\ ProducerStep
    /\ UNCHANGED <<strategy, maxsize, cpc, offered, consumed, cleared>>
    /\ UNCHANGED otherThanQueue

\* (variant of PutDropOldestEvict: the eviction is not counted)
PutDropOldestEvictUncounted(p) ==
    /\ ppc[p] = "do_full"
    /\ IF queue # <<>>
         THEN /\ evicted' = Append(evicted, [item |-> Head(queue), full |-> Full(queue)])
              /\ queue' = Tail(queue)
              /\ ppc' = [ppc EXCEPT ![p] = "do_put"]
              /\ UNCHANGED <<lock, rets, dropped_count>>
         ELSE /\ Return(p, FALSE)
              /\ lock' = "free"
              /\ UNCHANGED <<queue, dropped_count, evicted>>
    /\ ProducerStep
    /\ UNCHANGED <<strategy, maxsize, cpc, offered, consumed, cleared>>
    /\ UNCHANGED otherThanQueue

\* DROP_OLDEST, lines 55-57 and 64-65: get_nowait evicts the head and the counter is
\* incremented; queue.Empty (a consumer emptied the queue meanwhile) -> return False
PutDropOldestEvict(p) ==
    /\ ppc[p] = "do_full"
    /\ IF queue # <<>>
         THEN /\ evicted' = Append(evicted, [item |-> Head(queue), full |-> Full(queue)])
              /\ queue' = Tail(queue)
              /\ dropped_count' = dropped_count + 1
              /\ ppc' = [ppc EXCEPT ![p] = "do_put"]
              /\ UNCHANGED <<lock, rets>>
         ELSE /\ Return(p, FALSE)
              /\ lock' = "free"
              /\ UNCHANGED <<queue, dropped_count, evicted>>
    /\ ProducerStep
    /\ UNCHANGED <<strategy, maxsize, cpc, offered, consumed, cleared>>
    /\ UNCHANGED otherThanQueue

\* DROP_OLDEST, lines 58-65: put_nowait(item) after the eviction; True, or False on
\* queue.Full
PutDropOldestEnqueue(p) ==
    /\ ppc[p] = "do_put"
    /\ IF ~Full(queue)
         THEN /\ queue' = Enqueue(queue, Item(p))
              /\ Return(p, TRUE)
         ELSE /\ Return(p, FALSE)
              /\ UNCHANGED queue
    /\ lock' = "free"
    /\ ProducerStep
    /\ UNCHANGED <<strategy, maxsize, dropped_count, cpc, offered, consumed,
                   evicted, cleared>>
    /\ UNCHANGED otherThanQueue

(***************************************************************************)
(* BoundedQueue.get / get_nowait                                           *)
(***************************************************************************)
\* (variant of Get: the newest item is returned)
GetNewest ==
    /\ queue # <<>>
    /\ consumed' = Append(consumed, queue[Len(queue)])
    /\ queue' = SubSeq(queue, 1, Len(queue) - 1)
    /\ UNCHANGED <<strategy, maxsize, dropped_count, lock, ppc, cpc, offered,
                   rets, evicted, cleared, solo>>
    /\ UNCHANGED otherThanQueue

\* lines 69-79: the head is returned. A get that finds the queue empty until its
\* timeout returns None and changes nothing: it is a stuttering step.
Get ==
    /\ queue # <<>>
    /\ consumed' = Append(consumed, Head(queue))
    /\ queue' = Tail(queue)
    /\ UNCHANGED <<strategy, maxsize, dropped_count, lock, ppc, cpc, offered,
                   rets, evicted, cleared, solo>>
    /\ UNCHANGED otherThanQueue

(***************************************************************************)
(* BoundedQueue.clear                                                      *)
(***************************************************************************)
\* line 95: with self._lock
ClearStart ==
    /\ cpc = "idle"
    /\ lock = "free"
    /\ lock' = "clear"
    /\ cpc' = "clearing"
    /\ UNCHANGED <<strategy, maxsize, queue, dropped_count, ppc, offered, rets,
                   consumed, evicted, cleared, solo>>
    /\ UNCHANGED otherThanQueue

\* lines 96-100: one turn of the while loop, or its end on an empty queue
ClearStep ==
    /\ cpc = "clearing"
    /\ IF queue # <<>>
         THEN /\ cleared' = Append(cleared, Head(queue))
              /\ queue' = Tail(queue)
              /\ UNCHANGED <<lock, cpc>>
         ELSE /\ lock' = "free"
              /\ cpc' = "idle"
              /\ UNCHANGED <<queue, cleared>>
    /\ UNCHANGED <<strategy, maxsize, dropped_count, ppc, offered, rets,
                   consumed, evicted, solo>>
    /\ UNCHANGED otherThanQueue

\* lines 90-92
get_dropped_count == dropped_count

\* the dropped-frame metric of a producer that calls record_dropped_frame() whenever
\* put returns False (threads/input.py lines 172-173; metrics.py lines 44-46)
frames_dropped ==
    SumOver([p \in Producers |-> Cardinality({i \in 1..Len(rets[p]) : ~rets[p][i]})],
            Producers)

(***************************************************************************)
(* The queue's specification.                                              *)
(***************************************************************************)
QueueInit ==
    /\ strategy \in Strategies
    /\ maxsize \in 1..MaxCap
    /\ queue = <<>>
    /\ dropped_count = 0
    /\ lock = "free"
    /\ ppc = [p \in Producers |-> "idle"]
    /\ cpc = "idle"
    /\ offered = [p \in Producers |-> 0]
    /\ rets = [p \in Producers |-> <<>>]
    /\ consumed = <<>>
    /\ evicted = <<>>
    /\ cleared = <<>>
    /\ solo = TRUE
    /\ ConsentConstructed
    /\ LifeIdle
    /\ FlowConstructed
    /\ VadConstructed
    /\ SpeechConstructed
    /\ AllowConstructed
    /\ LocksConstructed
    /\ VideoConstructed
    /\ PoolConstructed
    /\ ShutdownConstructed

QueueNext ==
    \/ \E p \in Producers : PutBlock(p)
    \/ \E p \in Producers : PutBlockWake(p)
    \/ \E p \in Producers : PutBlockTimeout(p)
    \/ \E p \in Producers : PutDropNewest(p)
    \/ \E p \in Producers : PutDropNewestCount(p)
    \/ \E p \in Producers : PutDropOldest(p)
    \/ \E p \in Producers : PutDropOldestEvict(p)
    \/ \E p \in Producers : PutDropOldestEnqueue(p)
    \/ Get
    \/ ClearStart
    \/ ClearStep

QueueSpec == QueueInit /\ [][QueueNext]_vars

(***************************************************************************)
(* ConsentState (misc/state.py) and VideoProcessingThread._process_frame   *)
(* (threads/video.py, lines 74-112).                                       *)
(***************************************************************************)
\* str.lower() on the names of the model
Lower(n) == IF n = "Alice" THEN "alice" ELSE n

\* shared/consent_file_utils.py sanitize_name: None -> "unknown", else lower case
\* (the names of the model hold letters only)
sanitize_name(n) == IF n = None THEN "unknown" ELSE Lower(n)

\* ConsentState.set_consent(name), one critical section; called by a Speech Worker
\* (threads/speech_worker.py:107) with the detected speaker or None
set_consent(n) ==
    /\ nEvents < MaxEvents
    /\ has_consent' = TRUE
    /\ speaker_name' = n
    /\ capture_next_frame' = TRUE
    /\ consented_names' = IF n # None THEN consented_names \cup {Lower(n)}
                          ELSE consented_names
    /\ nEvents' = nEvents + 1
    /\ flagEvent' = nEvents + 1
    /\ UNCHANGED <<vpc, vframe, vfile, entered, captureLog>>
    /\ UNCHANGED otherThanConsent

\* ConsentState.should_capture()
should_capture == capture_next_frame

\* video.py line 76: a frame starts _process_frame and reads the flag
VideoShouldCapture ==
    /\ vpc = "idle"
    /\ vframe < MaxFrames
    /\ vframe' = vframe + 1
    /\ IF should_capture
         THEN /\ vpc' = "save"
              /\ entered' = entered \cup {<<vframe + 1, flagEvent>>}
         ELSE /\ vpc' = "process"
              /\ UNCHANGED entered
    /\ UNCHANGED <<has_consent, speaker_name, capture_next_frame, consented_names,
                   nEvents, flagEvent, vfile, captureLog>>
    /\ UNCHANGED otherThanConsent

\* video.py lines 79-84: to_ndarray and ConsentCapture.save_head_image(frame,
\* speaker_name): an image file is written, or no face is found (None, None), or
\* the call raises (consent_capture.py:71) and line 111 catches it
VideoSaveHeadImage ==
    /\ vpc = "save"
    /\ \E outcome \in {"saved", "noface", "raise"} :
        \/ /\ outcome = "saved"
           /\ vfile' = sanitize_name(speaker_name)
           /\ vpc' = "register"
        \/ /\ outcome = "noface"
           /\ vfile' = None
           /\ vpc' = "reset"
        \/ /\ outcome = "raise"
           /\ vfile' = None
           /\ vpc' = "process"
    /\ UNCHANGED <<has_consent, speaker_name, capture_next_frame, consented_names,
                   nEvents, flagEvent, vframe, entered, captureLog>>
    /\ UNCHANGED otherThanConsent

\* video.py lines 88-108: extract_feature and add_consented_face under
\* sanitize_name(speaker_name); no encoding, or an error caught at line 105,
\* registers nothing
VideoRegisterFace ==
    /\ vpc = "register"
    /\ \E outcome \in {"added", "noencoding", "raise"} :
        /\ captureLog' = IF outcome = "added"
                           THEN captureLog \cup {[frame |-> vframe, file |-> vfile,
                                                  reg |-> sanitize_name(speaker_name)]}
                           ELSE captureLog
    /\ vpc' = "reset"
    /\ UNCHANGED <<has_consent, speaker_name, capture_next_frame, consented_names,
                   nEvents, flagEvent, vframe, vfile, entered>>
    /\ UNCHANGED otherThanConsent

\* video.py line 110: ConsentState.reset_capture()
VideoResetCapture ==
    /\ vpc = "reset"
    /\ capture_next_frame' = FALSE
    /\ vpc' = "process"
    /\ vfile' = None
    /\ UNCHANGED <<has_consent, speaker_name, consented_names, nEvents, flagEvent,
                   vframe, entered, captureLog>>
    /\ UNCHANGED otherThanConsent

\* video.py lines 114-150: the rest of _process_frame (detection, anonymization)
VideoProcessFrame ==
    /\ vpc = "process"
    /\ vpc' = "idle"
    /\ UNCHANGED <<has_consent, speaker_name, capture_next_frame, consented_names,
                   nEvents, flagEvent, vframe, vfile, entered, captureLog>>
    /\ UNCHANGED otherThanConsent

ConsentInit ==
    /\ ConsentConstructed
    /\ QueueConstructed
    /\ LifeIdle
    /\ FlowConstructed
    /\ VadConstructed
    /\ SpeechConstructed
    /\ AllowConstructed
    /\ LocksConstructed
    /\ VideoConstructed
    /\ PoolConstructed
    /\ ShutdownConstructed

ConsentNext ==
    \/ \E n \in Names \cup {None} : set_consent(n)
    \/ VideoShouldCapture
    \/ VideoSaveHeadImage
    \/ VideoRegisterFace
    \/ VideoResetCapture
    \/ VideoProcessFrame

ConsentSpec == ConsentInit /\ [][ConsentNext]_vars

\* C7: for every consent event the capture path runs on at most one video frame,
\* also when the capture attempt raises.
C7_OneFramePerEvent ==
    \A e \in 1..nEvents : Cardinality({f \in 1..vframe : <<f, e>> \in entered}) <= 1

(***************************************************************************)
(* ThreadStateManager (misc/state.py, lines 127-186).                      *)
(***************************************************************************)
Registered(name) == states[name] # "unregistered"

\* register_thread, lines 133-137
register_thread(name) ==
    /\ states' = [states EXCEPT ![name] = "IDLE"]
    /\ health_age' = [health_age EXCEPT ![name] = 0]

\* update_state, lines 139-148: nothing happens for a name without an entry
update_state(name, st) ==
    IF Registered(name)
      THEN /\ states' = [states EXCEPT ![name] = st]
           /\ health_age' = [health_age EXCEPT ![name] = 0]
      ELSE UNCHANGED <<states, health_age>>

\* heartbeat, lines 150-153
heartbeat(name) ==
    /\ health_age' = IF Registered(name) THEN [health_age EXCEPT ![name] = 0]
                    ELSE health_age
    /\ UNCHANGED states

\* (variant of is_healthy: a heartbeat exactly timeout_seconds old still counts)
is_healthy_inclusive(name, timeout_seconds) ==
    IF ~Registered(name) THEN FALSE
    ELSE /\ health_age[name] <= timeout_seconds
         /\ states[name] \notin {"ERROR", "STOPPED"}

\* is_healthy, lines 163-173
is_healthy(name, timeout_seconds) ==
    IF ~Registered(name) THEN FALSE
    ELSE /\ health_age[name] < timeout_seconds
         /\ states[name] \notin {"ERROR", "STOPPED"}

\* unregister_thread, lines 182-186
unregister_thread(name) ==
    /\ states' = [states EXCEPT ![name] = "unregistered"]
    /\ health_age' = [health_age EXCEPT ![name] = 0]

(***************************************************************************)
(* BaseThread (threads/base.py).                                           *)
(***************************************************************************)
\* should_stop, lines 62-63
should_stop(s) == stop_event[s] \/ shutdown

SetPc(s, pc) == tpc' = [tpc EXCEPT ![s] = pc]

\* run, line 28: the started thread registers itself
RunRegister(s) ==
    /\ tpc[s] = "started"
    /\ register_thread(s)
    /\ SetPc(s, "registered")
    /\ UNCHANGED <<health_timeout, threads, profile, heartbeat_age, stop_event, shutdown, plpc, pli, mpc, mtodo, unhealthy_threads, all_states,
                   newly_unhealthy, recovered, setup_calls,
                   cleanup_calls,
                   watcher_stopped, join_result,
                   unhealthy_before, alerts>>
    /\ UNCHANGED otherThanLife

\* run, line 29
RunMarkRunning(s) ==
    /\ tpc[s] = "registered"
    /\ update_state(s, "RUNNING")
    /\ SetPc(s, "setup")
    /\ UNCHANGED <<health_timeout, threads, profile, heartbeat_age, stop_event, shutdown, plpc, pli, mpc, mtodo, unhealthy_threads, all_states,
                   newly_unhealthy, recovered, setup_calls,
                   cleanup_calls,
                   watcher_stopped, join_result,
                   unhealthy_before, alerts>>
    /\ UNCHANGED otherThanLife

\* (variant of RunSetup: an error in setup() is swallowed and the loop is entered)
RunSetupErrorIgnored(s) ==
    /\ tpc[s] = "setup"
    /\ setup_calls' = [setup_calls EXCEPT ![s] = @ + 1]
    /\ SetPc(s, "loop")
    /\ UNCHANGED <<health_timeout, threads, profile, states, health_age, heartbeat_age,
                   stop_event, shutdown, plpc, pli, mpc, mtodo,
                   unhealthy_threads, all_states,
                   newly_unhealthy, recovered, cleanup_calls,
                   watcher_stopped, join_result,
                   unhealthy_before, alerts>>
    /\ UNCHANGED otherThanLife

\* run, line 33: setup() returns, or raises into the handler of line 47
RunSetup(s) ==
    /\ tpc[s] = "setup"
    /\ setup_calls' = [setup_calls EXCEPT ![s] = @ + 1]
    /\ SetPc(s, IF profile[s] = "setup_raises" THEN "fatal" ELSE "loop")
    /\ UNCHANGED <<health_timeout, threads, profile, states, health_age, heartbeat_age,
                   stop_event, shutdown, plpc, pli, mpc, mtodo,
                   unhealthy_threads, all_states,
                   newly_unhealthy, recovered, cleanup_calls,
                   watcher_stopped, join_result,
                   unhealthy_before, alerts>>
    /\ UNCHANGED otherThanLife

\* run, line 35: while not self.should_stop()
RunLoopCheck(s) ==
    /\ tpc[s] = "loop"
    /\ SetPc(s, IF should_stop(s) THEN "cleanup" ELSE "heartbeat")
    /\ UNCHANGED <<health_timeout, threads, profile, states, health_age, heartbeat_age,
                   stop_event, shutdown, plpc, pli, mpc, mtodo,
                   unhealthy_threads, all_states,
                   newly_unhealthy, recovered, setup_calls,
                   cleanup_calls,
                   watcher_stopped, join_result,
                   unhealthy_before, alerts>>
    /\ UNCHANGED otherThanLife

\* run, line 36 and _heartbeat, lines 56-60
RunHeartbeat(s) ==
    /\ tpc[s] = "heartbeat"
    /\ IF heartbeat_age[s] >= HeartbeatInterval
         THEN /\ heartbeat(s)
              /\ heartbeat_age' = [heartbeat_age EXCEPT ![s] = 0]
         ELSE UNCHANGED <<states, health_age, heartbeat_age>>
    /\ SetPc(s, "iter")
    /\ UNCHANGED <<health_timeout, threads, profile, stop_event, shutdown, plpc,
                   pli, mpc, mtodo, unhealthy_threads, all_states,
                   newly_unhealthy, recovered, setup_calls,
                   cleanup_calls,
                   watcher_stopped, join_result,
                   unhealthy_before, alerts>>
    /\ UNCHANGED otherThanLife

\* (variant of RunIteration: an error of process_iteration reaches the outer handler)
RunIterationErrorFatal(s) ==
    /\ tpc[s] = "iter"
    /\ SetPc(s, IF profile[s] = "iter_raises" THEN "fatal" ELSE "loop")
    /\ UNCHANGED <<health_timeout, threads, profile, states, health_age, heartbeat_age,
                   stop_event, shutdown, plpc, pli, mpc, mtodo, unhealthy_threads, all_states,
                   newly_unhealthy, recovered, setup_calls,
                   cleanup_calls,
                   watcher_stopped, join_result,
                   unhealthy_before, alerts>>
    /\ UNCHANGED otherThanLife

\* run, lines 38-42: process_iteration() returns (work done or not, then a short
\* sleep), or raises into the handler of line 41
RunIteration(s) ==
    /\ tpc[s] = "iter"
    /\ SetPc(s, IF profile[s] = "iter_raises" THEN "caught" ELSE "loop")
    /\ UNCHANGED <<health_timeout, threads, profile, states, health_age, heartbeat_age,
                   stop_event, shutdown, plpc, pli, mpc, mtodo, unhealthy_threads, all_states,
                   newly_unhealthy, recovered, setup_calls,
                   cleanup_calls,
                   watcher_stopped, join_result,
                   unhealthy_before, alerts>>
    /\ UNCHANGED otherThanLife

\* (variant of RunIterationCaught: the loop is left after every error)
RunIterationCaughtBreaks(s) ==
    /\ tpc[s] = "caught"
    /\ SetPc(s, "cleanup")
    /\ UNCHANGED <<health_timeout, threads, profile, states, health_age, heartbeat_age,
                   stop_event, shutdown, plpc, pli, mpc, mtodo,
                   unhealthy_threads, all_states,
                   newly_unhealthy, recovered, setup_calls,
                   cleanup_calls,
                   watcher_stopped, join_result,
                   unhealthy_before, alerts>>
    /\ UNCHANGED otherThanLife

\* run, lines 42-45: the error is logged; break if a stop was requested, else sleep
\* and loop
RunIterationCaught(s) ==
    /\ tpc[s] = "caught"
    /\ SetPc(s, IF should_stop(s) THEN "cleanup" ELSE "loop")
    /\ UNCHANGED <<health_timeout, threads, profile, states, health_age, heartbeat_age,
                   stop_event, shutdown, plpc, pli, mpc, mtodo,
                   unhealthy_threads, all_states,
                   newly_unhealthy, recovered, setup_calls,
                   cleanup_calls,
                   watcher_stopped, join_result,
                   unhealthy_before, alerts>>
    /\ UNCHANGED otherThanLife

\* (variant of RunFatal: cleanup() runs after the loop only, not in a finally block)
RunFatalSkipsCleanup(s) ==
    /\ tpc[s] = "fatal"
    /\ update_state(s, "ERROR")
    /\ SetPc(s, "finish")
    /\ UNCHANGED <<health_timeout, threads, profile, heartbeat_age, stop_event, shutdown, plpc, pli, mpc, mtodo, unhealthy_threads, all_states,
                   newly_unhealthy, recovered, setup_calls,
                   cleanup_calls,
                   watcher_stopped, join_result,
                   unhealthy_before, alerts>>
    /\ UNCHANGED otherThanLife

\* run, lines 47-49: the fatal error is logged and ERROR recorded
RunFatal(s) ==
    /\ tpc[s] = "fatal"
    /\ update_state(s, "ERROR")
    /\ SetPc(s, "cleanup")
    /\ UNCHANGED <<health_timeout, threads, profile, heartbeat_age, stop_event, shutdown, plpc, pli, mpc, mtodo, unhealthy_threads, all_states,
                   newly_unhealthy, recovered, setup_calls,
                   cleanup_calls,
                   watcher_stopped, join_result,
                   unhealthy_before, alerts>>
    /\ UNCHANGED otherThanLife

\* run, lines 50-51: finally: self.cleanup()
RunCleanup(s) ==
    /\ tpc[s] = "cleanup"
    /\ cleanup_calls' = [cleanup_calls EXCEPT ![s] = @ + 1]
    /\ SetPc(s, "finish")
    /\ UNCHANGED <<health_timeout, threads, profile, states, health_age, heartbeat_age,
                   stop_event, shutdown, plpc, pli, mpc, mtodo,
                   unhealthy_threads, all_states,
                   newly_unhealthy, recovered, setup_calls,
                   watcher_stopped, join_result,
                   unhealthy_before, alerts>>
    /\ UNCHANGED otherThanLife

\* run, line 52
RunMarkStopped(s) ==
    /\ tpc[s] = "finish"
    /\ update_state(s, "STOPPED")
    /\ SetPc(s, "unregister")
    /\ UNCHANGED <<health_timeout, threads, profile, heartbeat_age, stop_event, shutdown, plpc, pli, mpc, mtodo, unhealthy_threads, all_states,
                   newly_unhealthy, recovered, setup_calls,
                   cleanup_calls,
                   watcher_stopped, join_result,
                   unhealthy_before, alerts>>
    /\ UNCHANGED otherThanLife

\* run, lines 53-54
RunUnregister(s) ==
    /\ tpc[s] = "unregister"
    /\ unregister_thread(s)
    /\ SetPc(s, "done")
    /\ UNCHANGED <<health_timeout, threads, profile, heartbeat_age, stop_event, shutdown, plpc, pli, mpc, mtodo, unhealthy_threads, all_states,
                   newly_unhealthy, recovered, setup_calls,
                   cleanup_calls,
                   watcher_stopped, join_result,
                   unhealthy_before, alerts>>
    /\ UNCHANGED otherThanLife

(***************************************************************************)
(* Pipeline.start / wait / stop (misc/pipeline.py) and the shutdown flag   *)
(* (misc/shutdown.py).                                                     *)
(***************************************************************************)
\* start, lines 161-163: the threads are started in list order
PipelineStartThread ==
    /\ plpc = "starting"
    /\ tpc' = [tpc EXCEPT ![threads[pli]] = "started"]
    /\ IF pli < Len(threads)
         THEN pli' = pli + 1 /\ UNCHANGED plpc
         ELSE pli' = 1 /\ plpc' = "waiting"
    /\ UNCHANGED <<health_timeout, threads, profile, states, health_age, heartbeat_age,
                   stop_event, shutdown, mpc, mtodo, unhealthy_threads, all_states,
                   newly_unhealthy, recovered, setup_calls,
                   cleanup_calls,
                   watcher_stopped, join_result,
                   unhealthy_before, alerts>>
    /\ UNCHANGED otherThanLife

\* shutdown.py lines 33-45: a signal sets the shutdown flag (handlers are
\* registered before the threads start, pipeline.py:159)
Signal ==
    /\ ~shutdown
    /\ shutdown' = TRUE
    /\ UNCHANGED <<health_timeout, threads, profile, states, health_age, tpc, heartbeat_age,
                   stop_event, plpc, pli, mpc, mtodo, unhealthy_threads, all_states,
                   newly_unhealthy, recovered, setup_calls,
                   cleanup_calls,
                   watcher_stopped, join_result,
                   unhealthy_before, alerts>>
    /\ UNCHANGED otherThanLife

\* (variant of PipelineStop: the stop requests are issued before the watcher is
\* stopped)
PipelineStopSkipsWatcher ==
    /\ plpc = "waiting"
    /\ shutdown' = TRUE
    /\ plpc' = "stop_mark"
    /\ pli' = 1
    /\ UNCHANGED <<health_timeout, threads, profile, states, health_age, tpc, heartbeat_age,
                   stop_event, mpc, mtodo, unhealthy_threads, all_states,
                   newly_unhealthy, recovered, setup_calls,
                   cleanup_calls,
                   watcher_stopped, join_result,
                   unhealthy_before, alerts>>
    /\ UNCHANGED otherThanLife

\* stop, lines 188-191: called when wait() sees the flag or by the owner;
\* initiate_shutdown sets the flag
PipelineStop ==
    /\ plpc = "waiting"
    /\ shutdown' = TRUE
    /\ plpc' = "stop_watcher"
    /\ pli' = 1
    /\ UNCHANGED <<health_timeout, threads, profile, states, health_age, tpc, heartbeat_age,
                   stop_event, mpc, mtodo, unhealthy_threads, all_states,
                   newly_unhealthy, recovered, setup_calls,
                   cleanup_calls,
                   watcher_stopped, join_result,
                   unhealthy_before, alerts>>
    /\ UNCHANGED otherThanLife

\* stop, line 194: consent_manager.stop_monitoring(), which sets the watcher's stop
\* event and joins it for at most 5 seconds (consent_manager.py lines 123-127)
PipelineStopWatcher ==
    /\ plpc = "stop_watcher"
    /\ watcher_stopped' = TRUE
    /\ plpc' = "stop_mark"
    /\ UNCHANGED <<health_timeout, threads, profile, states, health_age, tpc, heartbeat_age,
                   stop_event, shutdown, pli, mpc, mtodo, unhealthy_threads, all_states,
                   newly_unhealthy, recovered, setup_calls,
                   cleanup_calls,
                   join_result,
                   unhealthy_before, alerts>>
    /\ UNCHANGED otherThanLife

\* stop, lines 196-198 and BaseThread.stop, lines 66-67: update_state(STOPPING)
PipelineStopMark ==
    /\ plpc = "stop_mark"
    /\ update_state(threads[pli], "STOPPING")
    /\ plpc' = "stop_set"
    /\ UNCHANGED <<health_timeout, threads, profile, tpc, heartbeat_age, stop_event,
                   shutdown, pli, mpc, mtodo, unhealthy_threads, all_states,
                   newly_unhealthy, recovered, setup_calls,
                   cleanup_calls,
                   watcher_stopped, join_result,
                   unhealthy_before, alerts>>
    /\ UNCHANGED otherThanLife

\* BaseThread.stop, line 68: self._stop_event.set(); then the next thread, and after
\* the last one the joins (line 200)
PipelineStopSet ==
    /\ plpc = "stop_set"
    /\ stop_event' = [stop_event EXCEPT ![threads[pli]] = TRUE]
    /\ IF pli < Len(threads)
         THEN pli' = pli + 1 /\ plpc' = "stop_mark"
         ELSE pli' = 1 /\ plpc' = "joining"
    /\ UNCHANGED <<health_timeout, threads, profile, states, health_age, tpc, heartbeat_age,
                   shutdown, mpc, mtodo, unhealthy_threads, all_states,
                   newly_unhealthy, recovered, setup_calls,
                   cleanup_calls,
                   watcher_stopped, join_result,
                   unhealthy_before, alerts>>
    /\ UNCHANGED otherThanLife

\* (variant of PipelineJoin: join() without a timeout)
PipelineJoinWithoutTimeout ==
    /\ plpc = "joining"
    /\ tpc[threads[pli]] = "done"
    /\ join_result' = [join_result EXCEPT ![threads[pli]] = "stopped"]
    /\ IF pli < Len(threads)
         THEN pli' = pli + 1 /\ UNCHANGED plpc
         ELSE pli' = 1 /\ plpc' = "metrics"
    /\ UNCHANGED <<health_timeout, threads, profile, states, health_age, tpc, heartbeat_age,
                   stop_event, shutdown, mpc, mtodo, unhealthy_threads, all_states,
                   newly_unhealthy, recovered, setup_calls,
                   cleanup_calls,
                   watcher_stopped,
                   unhealthy_before, alerts>>
    /\ UNCHANGED otherThanLife

\* stop, lines 202-207: thread.join(timeout=5.0) returns when the thread has ended
\* or when the timeout has passed; is_alive() then decides what is logged: "stopped",
\* or the warning "did not stop cleanly"
PipelineJoin ==
    /\ plpc = "joining"
    /\ join_result' = [join_result EXCEPT ![threads[pli]] =
                          IF tpc[threads[pli]] = "done" THEN "stopped"
                          ELSE "did not stop cleanly"]
    /\ IF pli < Len(threads)
         THEN pli' = pli + 1 /\ UNCHANGED plpc
         ELSE pli' = 1 /\ plpc' = "metrics"
    /\ UNCHANGED <<health_timeout, threads, profile, states, health_age, tpc, heartbeat_age,
                   stop_event, shutdown, mpc, mtodo, unhealthy_threads, all_states,
                   newly_unhealthy, recovered, setup_calls,
                   cleanup_calls,
                   watcher_stopped,
                   unhealthy_before, alerts>>
    /\ UNCHANGED otherThanLife

\* stop, lines 209-211: self.metrics.log_summary()
PipelineMetrics ==
    /\ plpc = "metrics"
    /\ plpc' = "stopped"
    /\ UNCHANGED <<health_timeout, threads, profile, states, health_age, tpc, heartbeat_age,
                   stop_event, shutdown, pli, mpc, mtodo, unhealthy_threads, all_states,
                   newly_unhealthy, recovered, setup_calls,
                   cleanup_calls,
                   watcher_stopped, join_result,
                   unhealthy_before, alerts>>
    /\ UNCHANGED otherThanLife

\* the steps of Pipeline.stop after it was called
PipelineStopStep ==
    \/ PipelineStopWatcher
    \/ PipelineStopMark
    \/ PipelineStopSet
    \/ PipelineJoin
    \/ PipelineMetrics

(***************************************************************************)
(* HealthMonitorThread (threads/monitor.py).                               *)
(***************************************************************************)
\* The monitor is the last entry of Pipeline.threads (pipeline.py:145) and skips its
\* own name in the check (monitor.py:50-51); here it runs from the start, and a check
\* made before a worker has registered simply does not see that worker.
\* its own run loop (base.py line 35): it ends once a stop is requested
MonitorLoop ==
    /\ mpc = "loop"
    /\ mpc' = IF shutdown THEN "stopped" ELSE "iter"
    /\ UNCHANGED <<health_timeout, threads, profile, states, health_age, tpc, heartbeat_age,
                   stop_event, shutdown, plpc, pli, mtodo, unhealthy_threads, all_states,
                   newly_unhealthy, recovered, setup_calls,
                   cleanup_calls,
                   watcher_stopped, join_result,
                   unhealthy_before, alerts>>
    /\ UNCHANGED otherThanLife

\* process_iteration, lines 30-38 and _check_thread_health, lines 45-47: when the
\* monitor interval has elapsed, get_all_states() copies the registry (a name
\* without an entry appears as "unregistered"); otherwise the iteration does nothing
MonitorIteration ==
    /\ mpc = "iter"
    /\ \E due \in BOOLEAN :
        IF due
          THEN /\ all_states' = states
               /\ mtodo' = {s \in Stages : Registered(s)}
               /\ newly_unhealthy' = {}
               /\ recovered' = {}
               /\ unhealthy_before' = unhealthy_threads
               /\ mpc' = "checking"
          ELSE /\ mpc' = "loop"
               /\ UNCHANGED <<mtodo, all_states, newly_unhealthy, recovered,
                              unhealthy_before>>
    /\ UNCHANGED <<health_timeout, threads, profile, states, health_age, tpc, heartbeat_age,
                   stop_event, shutdown, plpc, pli, unhealthy_threads, setup_calls,
                   cleanup_calls, watcher_stopped, join_result, alerts>>
    /\ UNCHANGED otherThanLife

\* _check_thread_health, lines 49-62: one name of the snapshot
MonitorCheck(s) ==
    /\ mpc = "checking"
    /\ s \in mtodo
    /\ mtodo' = mtodo \ {s}
    /\ IF ~is_healthy(s, health_timeout) /\ s \notin unhealthy_threads
         THEN /\ newly_unhealthy' = newly_unhealthy \cup {s}
              /\ unhealthy_threads' = unhealthy_threads \cup {s}
              /\ UNCHANGED recovered
       ELSE IF is_healthy(s, health_timeout) /\ s \in unhealthy_threads
         THEN /\ recovered' = recovered \cup {s}
              /\ unhealthy_threads' = unhealthy_threads \ {s}
              /\ UNCHANGED newly_unhealthy
       ELSE UNCHANGED <<newly_unhealthy, recovered, unhealthy_threads>>
    /\ UNCHANGED <<health_timeout, threads, profile, states, health_age, tpc, heartbeat_age,
                   stop_event, shutdown, plpc, pli, mpc, all_states, setup_calls,
                   cleanup_calls,
                   watcher_stopped, join_result,
                   unhealthy_before, alerts>>
    /\ UNCHANGED otherThanLife

\* _check_thread_health, lines 64-72: the warnings, the recoveries and the ERROR
\* states of the snapshot are logged; the function returns
MonitorCheckDone ==
    /\ mpc = "checking"
    /\ mtodo = {}
    /\ alerts' = [warning |-> newly_unhealthy,
                  info |-> recovered,
                  critical |-> {s \in Stages : all_states[s] = "ERROR"}]
    /\ mpc' = "loop"
    /\ all_states' = [s \in Stages |-> "unregistered"]
    /\ newly_unhealthy' = {}
    /\ recovered' = {}
    /\ UNCHANGED <<health_timeout, threads, profile, states, health_age, tpc, heartbeat_age,
                   stop_event, shutdown, plpc, pli, mtodo, unhealthy_threads,
                   setup_calls, cleanup_calls, watcher_stopped, join_result,
                   unhealthy_before>>
    /\ UNCHANGED otherThanLife

\* the clock advances by one unit: every recorded time gets one unit older. An age
\* is counted up to the value it is compared with (is_healthy: health_timeout,
\* _heartbeat: HeartbeatInterval); beyond it every comparison has the same result.
Tick ==
    /\ health_age' = [s \in Stages |->
                        IF Registered(s) THEN Min(health_age[s] + 1, health_timeout)
                        ELSE health_age[s]]
    /\ heartbeat_age' = [s \in Stages |-> Min(heartbeat_age[s] + 1, HeartbeatInterval)]
    /\ UNCHANGED <<health_timeout, threads, profile, states, tpc, stop_event, shutdown,
                   plpc, pli, mpc, mtodo, unhealthy_threads, all_states,
                   newly_unhealthy, recovered, setup_calls,
                   cleanup_calls,
                   watcher_stopped, join_result,
                   unhealthy_before, alerts>>
    /\ UNCHANGED otherThanLife

StageStep(s) ==
    \/ RunRegister(s)
    \/ RunMarkRunning(s)
    \/ RunSetup(s)
    \/ RunLoopCheck(s)
    \/ RunHeartbeat(s)
    \/ RunIteration(s)
    \/ RunIterationCaught(s)
    \/ RunFatal(s)
    \/ RunCleanup(s)
    \/ RunMarkStopped(s)
    \/ RunUnregister(s)

\* Two worker stages under Pipeline.start / stop and the shutdown flag, without the
\* Health Monitor and the clock: the monitor writes only its own fields, and the ages
\* decide only whether _heartbeat records a heartbeat.
LifeInit ==
    /\ LifeConstructed
    /\ threads = StageOrder
    /\ health_timeout = 1
    /\ profile \in [Stages -> Profiles]
    /\ QueueConstructed
    /\ ConsentConstructed
    /\ FlowConstructed
    /\ VadConstructed
    /\ SpeechConstructed
    /\ AllowConstructed
    /\ LocksConstructed
    /\ VideoConstructed
    /\ PoolConstructed
    /\ ShutdownConstructed

LifeNext ==
    \/ \E s \in Stages : RunRegister(s)
    \/ \E s \in Stages : RunMarkRunning(s)
    \/ \E s \in Stages : RunSetup(s)
    \/ \E s \in Stages : RunLoopCheck(s)
    \/ \E s \in Stages : RunHeartbeat(s)
    \/ \E s \in Stages : RunIteration(s)
    \/ \E s \in Stages : RunIterationCaught(s)
    \/ \E s \in Stages : RunFatal(s)
    \/ \E s \in Stages : RunCleanup(s)
    \/ \E s \in Stages : RunMarkStopped(s)
    \/ \E s \in Stages : RunUnregister(s)
    \/ PipelineStartThread
    \/ Signal
    \/ PipelineStop
    \/ PipelineStopWatcher
    \/ PipelineStopMark
    \/ PipelineStopSet
    \/ PipelineJoin
    \/ PipelineMetrics

LifeSpec == LifeInit /\ [][LifeNext]_vars

\* One worker stage with the Health Monitor watching it, the clock, Pipeline.start /
\* stop and the shutdown flag.
HealthInit ==
    /\ LifeConstructed
    /\ threads = SubSeq(StageOrder, 1, 1)
    /\ health_timeout \in 1..MaxHealthTimeout
    /\ profile \in {f \in [Stages -> Profiles] :
                      \A s \in Stages \ Range(threads) : f[s] = "ok"}
    /\ QueueConstructed
    /\ ConsentConstructed
    /\ FlowConstructed
    /\ VadConstructed
    /\ SpeechConstructed
    /\ AllowConstructed
    /\ LocksConstructed
    /\ VideoConstructed
    /\ PoolConstructed
    /\ ShutdownConstructed

HealthNext ==
    \/ \E s \in Stages : RunRegister(s)
    \/ \E s \in Stages : RunMarkRunning(s)
    \/ \E s \in Stages : RunSetup(s)
    \/ \E s \in Stages : RunLoopCheck(s)
    \/ \E s \in Stages : RunHeartbeat(s)
    \/ \E s \in Stages : RunIteration(s)
    \/ \E s \in Stages : RunIterationCaught(s)
    \/ \E s \in Stages : RunFatal(s)
    \/ \E s \in Stages : RunCleanup(s)
    \/ \E s \in Stages : RunMarkStopped(s)
    \/ \E s \in Stages : RunUnregister(s)
    \/ PipelineStartThread
    \/ Signal
    \/ PipelineStop
    \/ PipelineStopWatcher
    \/ PipelineStopMark
    \/ PipelineStopSet
    \/ PipelineJoin
    \/ PipelineMetrics
    \/ MonitorLoop
    \/ MonitorIteration
    \/ \E s \in Stages : MonitorCheck(s)
    \/ MonitorCheckDone
    \/ Tick

HealthSpec == HealthInit /\ [][HealthNext]_vars

\* LifeSpec with every started thread scheduled: a step of run() that can be taken
\* is eventually taken
LifeFairSpec == LifeSpec /\ \A s \in Stages : WF_vars(StageStep(s))

\* LifeSpec with only the thread that runs Pipeline.stop scheduled: a stage may stay
\* where it is for ever
StopFairSpec == LifeSpec /\ WF_vars(PipelineStopStep)

(***************************************************************************)
(* The video path: Input Demuxer -> video_input -> Video Processor ->      *)
(* video_output -> Output Muxer, with ConnectionState, the shutdown flag   *)
(* and the thread that runs Pipeline._cleanup. A frame is represented by   *)
(* the number of the input connection it was decoded from. A put or a      *)
(* clear of a queue is one step here; the steps inside put are the subject *)
(* of the BoundedQueue part above.                                         *)
(***************************************************************************)
\* the metadata _connect can report (input.py lines 78-94)
MetadataChoices == {{"has_video"}, {"has_audio"}, {"has_video", "has_audio"}}

\* BoundedQueue.put with DROP_OLDEST (the strategy of both video queues,
\* pipeline.py lines 48-50 and 67-69) and capacity MaxQueued
PutDropOldestWhole(q, x) ==
    IF Len(q) >= MaxQueued THEN Append(Tail(q), x) ELSE Append(q, x)

\* ConnectionState.set_input_connected, state.py lines 78-91
set_input_connected(connected, metadata) ==
    /\ input_connected' = connected
    /\ stream_metadata' = IF connected THEN stream_metadata \cup metadata ELSE {}

\* ---- Input Demuxer ----
\* base.py line 35 in the Input Demuxer's run(): stop -> cleanup(), else iterate
InputLoop ==
    /\ ipc = "loop"
    /\ ipc' = IF shutdown THEN "cleanup_disconnect" ELSE "iter"
    /\ UNCHANGED <<input_connected, output_connected, stream_metadata, video_input_queue,
                   video_output_queue, in_container, connection, decoded, vppc,
                   video_data, out_container, out_metadata, out_stream_metadata, opc,
                   out_video_data, out_seen_connected, kpc,
                   connected_at_shutdown,
                   vad_queue, audio_decoded>>
    /\ UNCHANGED <<otherThanFlow, lifeVars>>

\* input.py lines 42-51 and _connect, lines 65-115: no container yet; av.open
\* returns a publisher's stream and its metadata is published, or it times out
InputConnect ==
    /\ ipc = "iter"
    /\ ~in_container
    /\ \/ /\ connection < MaxConnections
          /\ \E metadata \in MetadataChoices : set_input_connected(TRUE, metadata)
          /\ in_container' = TRUE
          /\ connection' = connection + 1
       \/ UNCHANGED <<input_connected, stream_metadata, in_container, connection,
                   connected_at_shutdown,
                   vad_queue, audio_decoded>>
    /\ ipc' = "loop"
    /\ UNCHANGED <<output_connected, video_input_queue, video_output_queue, decoded,
                   vppc, video_data, out_container, out_metadata, out_stream_metadata,
                   opc, out_video_data, out_seen_connected, kpc,
                   connected_at_shutdown,
                   vad_queue, audio_decoded>>
    /\ UNCHANGED <<otherThanFlow, lifeVars>>

\* input.py lines 53-55, _process_single_packet lines 138-159 and
\* _process_video_frame lines 165-177: a video packet is decoded and its frame put
\* into video_input, or the packet is not a video frame
InputPacket ==
    /\ ipc = "iter"
    /\ in_container
    /\ \/ /\ "has_video" \in stream_metadata
          /\ decoded < MaxDecoded
          /\ decoded' = decoded + 1
          /\ video_input_queue' = PutDropOldestWhole(video_input_queue, connection)
       \/ UNCHANGED <<decoded, video_input_queue,
                   connected_at_shutdown,
                   vad_queue, audio_decoded>>
    /\ ipc' = "loop"
    /\ UNCHANGED <<input_connected, output_connected, stream_metadata,
                   video_output_queue, in_container, connection, vppc,
                   video_data, out_container, out_metadata, out_stream_metadata, opc,
                   out_video_data, out_seen_connected, kpc,
                   connected_at_shutdown,
                   vad_queue, audio_decoded>>
    /\ UNCHANGED <<otherThanFlow, lifeVars>>

\* input.py lines 56-63: the stream ends, times out or fails: _disconnect()
InputStreamEnds ==
    /\ ipc = "iter"
    /\ in_container
    /\ ipc' = "disconnect"
    /\ UNCHANGED <<input_connected, output_connected, stream_metadata, video_input_queue,
                   video_output_queue, in_container, connection, decoded, vppc,
                   video_data, out_container, out_metadata, out_stream_metadata, opc,
                   out_video_data, out_seen_connected, kpc,
                   connected_at_shutdown,
                   vad_queue, audio_decoded>>
    /\ UNCHANGED <<otherThanFlow, lifeVars>>

\* _disconnect, lines 118-129: the container is closed and input marked disconnected
InputDisconnectSet ==
    /\ ipc \in {"disconnect", "cleanup_disconnect"}
    /\ in_container' = FALSE
    /\ set_input_connected(FALSE, {})
    /\ ipc' = IF ipc = "disconnect" THEN "clear" ELSE "cleanup_clear"
    /\ UNCHANGED <<output_connected, video_input_queue, video_output_queue, connection,
                   decoded, vppc, video_data, out_container, out_metadata,
                   out_stream_metadata, opc, out_video_data, out_seen_connected, kpc,
                   connected_at_shutdown,
                   vad_queue, audio_decoded>>
    /\ UNCHANGED <<otherThanFlow, lifeVars>>

\* _disconnect, lines 131-136: the queues the demuxer feeds are cleared; from
\* process_iteration the loop goes on, from cleanup() (lines 193-195) the thread ends
InputDisconnectClear ==
    /\ ipc \in {"clear", "cleanup_clear"}
    /\ video_input_queue' = <<>>
    /\ vad_queue' = <<>>
    /\ ipc' = IF ipc = "clear" THEN "loop" ELSE "done"
    /\ UNCHANGED <<input_connected, output_connected, stream_metadata,
                   video_output_queue, in_container, connection, decoded, vppc,
                   video_data, out_container, out_metadata, out_stream_metadata, opc,
                   out_video_data, out_seen_connected, kpc,
                   connected_at_shutdown, audio_decoded>>
    /\ UNCHANGED <<otherThanFlow, lifeVars>>

\* ---- Video Processor ----
\* base.py line 35 in the Video Processor's run(): stop -> cleanup() (video.py lines
\* 152-156, which touches no queue) and the thread ends
VideoLoop ==
    /\ vppc = "loop"
    /\ vppc' = IF shutdown THEN "done" ELSE "check"
    /\ UNCHANGED <<input_connected, output_connected, stream_metadata,
                   video_input_queue, video_output_queue, in_container, connection,
                   decoded, ipc, video_data, out_container, out_metadata,
                   out_stream_metadata, opc, out_video_data, out_seen_connected, kpc,
                   connected_at_shutdown,
                   vad_queue, audio_decoded>>
    /\ UNCHANGED <<otherThanFlow, lifeVars>>

\* video.py lines 48-49: return False unless input is connected
VideoCheckConnected ==
    /\ vppc = "check"
    /\ vppc' = IF input_connected THEN "get" ELSE "loop"
    /\ UNCHANGED <<input_connected, output_connected, stream_metadata,
                   video_input_queue, video_output_queue, in_container, connection,
                   decoded, ipc, video_data, out_container, out_metadata,
                   out_stream_metadata, opc, out_video_data, out_seen_connected, kpc,
                   connected_at_shutdown,
                   vad_queue, audio_decoded>>
    /\ UNCHANGED <<otherThanFlow, lifeVars>>

\* (variant of VideoGet: get() without a timeout, which waits for a frame)
VideoGetWithoutTimeout ==
    /\ vppc = "get"
    /\ video_input_queue # <<>>
    /\ IF video_input_queue # <<>>
         THEN /\ video_data' = Head(video_input_queue)
              /\ video_input_queue' = Tail(video_input_queue)
              /\ vppc' = "process"
         ELSE /\ vppc' = "loop"
              /\ UNCHANGED <<video_data, video_input_queue,
                   connected_at_shutdown,
                   vad_queue, audio_decoded>>
    /\ UNCHANGED <<input_connected, output_connected, stream_metadata,
                   video_output_queue, in_container, connection, decoded, ipc,
                   out_container, out_metadata, out_stream_metadata, opc,
                   out_video_data, out_seen_connected, kpc,
                   connected_at_shutdown,
                   vad_queue, audio_decoded>>
    /\ UNCHANGED <<otherThanFlow, lifeVars>>

\* video.py lines 51-54: input_queue.get(timeout): a frame, or None after the timeout
VideoGet ==
    /\ vppc = "get"
    /\ IF video_input_queue # <<>>
         THEN /\ video_data' = Head(video_input_queue)
              /\ video_input_queue' = Tail(video_input_queue)
              /\ vppc' = "process"
         ELSE /\ vppc' = "loop"
              /\ UNCHANGED <<video_data, video_input_queue,
                   connected_at_shutdown,
                   vad_queue, audio_decoded>>
    /\ UNCHANGED <<input_connected, output_connected, stream_metadata,
                   video_output_queue, in_container, connection, decoded, ipc,
                   out_container, out_metadata, out_stream_metadata, opc,
                   out_video_data, out_seen_connected, kpc,
                   connected_at_shutdown,
                   vad_queue, audio_decoded>>
    /\ UNCHANGED <<otherThanFlow, lifeVars>>

\* video.py lines 56-72: _process_frame, then the processed frame is put into
\* video_output; an error is logged and the frame is lost
VideoProcessAndPut ==
    /\ vppc = "process"
    /\ \/ video_output_queue' = PutDropOldestWhole(video_output_queue, video_data)
       \/ UNCHANGED video_output_queue
    /\ video_data' = 0
    /\ vppc' = "loop"
    /\ UNCHANGED <<input_connected, output_connected, stream_metadata,
                   video_input_queue, in_container, connection, decoded, ipc,
                   out_container, out_metadata, out_stream_metadata, opc,
                   out_video_data, out_seen_connected, kpc,
                   connected_at_shutdown,
                   vad_queue, audio_decoded>>
    /\ UNCHANGED <<otherThanFlow, lifeVars>>

\* ---- Output Muxer ----
\* base.py line 35 in the Output Muxer's run(): stop -> cleanup(), which is
\* _disconnect() (output.py lines 242-244)
OutputLoop ==
    /\ opc = "loop"
    /\ opc' = IF shutdown THEN "cleanup_disconnect" ELSE "check"
    /\ out_seen_connected' = FALSE
    /\ out_metadata' = {}
    /\ UNCHANGED <<input_connected, output_connected, stream_metadata,
                   video_input_queue, video_output_queue, in_container, connection,
                   decoded, ipc, vppc, video_data, out_container, out_stream_metadata,
                   out_video_data, kpc,
                   connected_at_shutdown,
                   vad_queue, audio_decoded>>
    /\ UNCHANGED <<otherThanFlow, lifeVars>>

\* output.py lines 51-56: input not connected: _disconnect() if a container is open,
\* and return; input connected: go on to the metadata if no container is open
OutputCheckConnected ==
    /\ opc = "check"
    /\ out_seen_connected' = input_connected
    /\ opc' = IF ~input_connected
                THEN (IF out_container THEN "disconnect" ELSE "loop")
                ELSE (IF out_container THEN "get" ELSE "metadata")
    /\ UNCHANGED <<input_connected, output_connected, stream_metadata,
                   video_input_queue, video_output_queue, in_container, connection,
                   decoded, ipc, vppc, video_data, out_container, out_metadata,
                   out_stream_metadata, out_video_data, kpc,
                   connected_at_shutdown,
                   vad_queue, audio_decoded>>
    /\ UNCHANGED <<otherThanFlow, lifeVars>>

\* output.py line 57: metadata = self.connection_state.get_stream_metadata()
OutputReadMetadata ==
    /\ opc = "metadata"
    /\ out_metadata' = stream_metadata
    /\ opc' = "connect"
    /\ UNCHANGED <<input_connected, output_connected, stream_metadata,
                   video_input_queue, video_output_queue, in_container, connection,
                   decoded, ipc, vppc, video_data, out_container, out_stream_metadata,
                   out_video_data, out_seen_connected, kpc,
                   connected_at_shutdown,
                   vad_queue, audio_decoded>>
    /\ UNCHANGED <<otherThanFlow, lifeVars>>

\* output.py lines 58-62: only with has_video in the metadata _connect is called;
\* with any other metadata the iteration returns
OutputConnect ==
    /\ opc = "connect"
    /\ opc' = IF "has_video" \in out_metadata THEN "open" ELSE "loop"
    /\ UNCHANGED <<input_connected, output_connected, stream_metadata,
                   video_input_queue, video_output_queue, in_container, connection,
                   decoded, ipc, vppc, video_data, out_container, out_metadata,
                   out_stream_metadata, out_video_data, out_seen_connected, kpc,
                   connected_at_shutdown,
                   vad_queue, audio_decoded>>
    /\ UNCHANGED <<otherThanFlow, lifeVars>>

\* _connect, lines 85-156: the output is opened and configured from the metadata
\* (lines 141-142), or av.open raises and the iteration returns (lines 149-156)
OutputOpen ==
    /\ opc = "open"
    /\ \/ /\ out_container' = TRUE
          /\ output_connected' = TRUE
          /\ out_stream_metadata' = out_metadata
          /\ opc' = "get"
       \/ /\ opc' = "loop"
          /\ UNCHANGED <<out_container, output_connected, out_stream_metadata>>
    /\ UNCHANGED <<input_connected, stream_metadata, video_input_queue,
                   video_output_queue, in_container, connection, decoded, ipc, vppc,
                   video_data, out_metadata, out_video_data, out_seen_connected, kpc,
                   connected_at_shutdown,
                   vad_queue, audio_decoded>>
    /\ UNCHANGED <<otherThanFlow, lifeVars>>

\* output.py lines 66-67: video_queue.get_nowait(); without a frame the iteration
\* goes on to the audio part
OutputGet ==
    /\ opc = "get"
    /\ IF video_output_queue # <<>>
         THEN /\ out_video_data' = Head(video_output_queue)
              /\ video_output_queue' = Tail(video_output_queue)
              /\ opc' = "write"
         ELSE /\ opc' = "audio"
              /\ UNCHANGED <<out_video_data, video_output_queue,
                   connected_at_shutdown,
                   vad_queue, audio_decoded>>
    /\ UNCHANGED <<input_connected, output_connected, stream_metadata,
                   video_input_queue, in_container, connection, decoded, ipc, vppc,
                   video_data, out_container, out_metadata, out_stream_metadata,
                   out_seen_connected, kpc,
                   connected_at_shutdown,
                   vad_queue, audio_decoded>>
    /\ UNCHANGED <<otherThanFlow, lifeVars>>

\* output.py line 68 and _process_video, lines 191-206: the frame is encoded and
\* muxed and the iteration goes on to the audio part, or the write fails and the
\* output is disconnected
OutputWrite ==
    /\ opc = "write"
    /\ out_video_data' = 0
    /\ \/ opc' = "audio"
       \/ opc' = "disconnect"
    /\ UNCHANGED <<input_connected, output_connected, stream_metadata,
                   video_input_queue, video_output_queue, in_container, connection,
                   decoded, ipc, vppc, video_data, out_container, out_metadata,
                   out_stream_metadata, out_seen_connected, kpc,
                   connected_at_shutdown,
                   vad_queue, audio_decoded>>
    /\ UNCHANGED <<otherThanFlow, lifeVars>>

\* output.py lines 71-81 with _process_raw_audio / _process_processed_audio, lines
\* 208-227 and 231-238: with an audio stream (has_audio in the metadata the output
\* was opened with) one audio frame, if one is queued, is encoded and muxed, or the
\* write raises
OutputAudio ==
    /\ opc = "audio"
    /\ IF out_container /\ "has_audio" \in out_stream_metadata
         THEN \/ opc' = "loop"
              \/ opc' = "audio_error"
         ELSE opc' = "loop"
    /\ UNCHANGED <<input_connected, output_connected, stream_metadata,
                   video_input_queue, video_output_queue, in_container, connection,
                   decoded, ipc, vppc, video_data, out_container, out_metadata,
                   out_stream_metadata, out_video_data, out_seen_connected, kpc,
                   connected_at_shutdown,
                   vad_queue, audio_decoded>>
    /\ UNCHANGED <<otherThanFlow, lifeVars>>

\* _process_raw_audio, lines 228-229, and _process_processed_audio, lines 239-240:
\* the error of the audio write is logged and the iteration returns
OutputAudioError ==
    /\ opc = "audio_error"
    /\ opc' = "loop"
    /\ UNCHANGED <<input_connected, output_connected, stream_metadata,
                   video_input_queue, video_output_queue, in_container, connection,
                   decoded, ipc, vppc, video_data, out_container, out_metadata,
                   out_stream_metadata, out_video_data, out_seen_connected, kpc,
                   connected_at_shutdown,
                   vad_queue, audio_decoded>>
    /\ UNCHANGED <<otherThanFlow, lifeVars>>

\* _disconnect, lines 159-176: the container is closed and output marked disconnected
OutputDisconnectSet ==
    /\ opc \in {"disconnect", "cleanup_disconnect"}
    /\ out_container' = FALSE
    /\ output_connected' = FALSE
    /\ opc' = IF opc = "disconnect" THEN "clear" ELSE "cleanup_clear"
    /\ UNCHANGED <<input_connected, stream_metadata, video_input_queue,
                   video_output_queue, in_container, connection, decoded, ipc, vppc,
                   video_data, out_metadata, out_stream_metadata, out_video_data,
                   out_seen_connected, kpc,
                   connected_at_shutdown,
                   vad_queue, audio_decoded>>
    /\ UNCHANGED <<otherThanFlow, lifeVars>>

\* _disconnect, lines 178-184: the output queues are cleared
OutputDisconnectClear ==
    /\ opc \in {"clear", "cleanup_clear"}
    /\ video_output_queue' = <<>>
    /\ opc' = IF opc = "clear" THEN "loop" ELSE "done"
    /\ UNCHANGED <<input_connected, output_connected, stream_metadata,
                   video_input_queue, in_container, connection, decoded, ipc, vppc,
                   video_data, out_container, out_metadata, out_stream_metadata,
                   out_video_data, out_seen_connected, kpc,
                   connected_at_shutdown,
                   vad_queue, audio_decoded>>
    /\ UNCHANGED <<otherThanFlow, lifeVars>>

\* ---- shutdown ----
\* a signal or Pipeline.stop calls initiate_shutdown (shutdown.py lines 33-47): the
\* flag is set and the thread that runs the cleanup callbacks is started
FlowShutdown ==
    /\ ~shutdown
    /\ shutdown' = TRUE
    /\ kpc' = "clear_input"
    /\ connected_at_shutdown' = (input_connected /\ output_connected)
    /\ UNCHANGED <<input_connected, output_connected, stream_metadata, video_input_queue,
                   video_output_queue, in_container, connection, decoded, ipc, vppc,
                   video_data, out_container, out_metadata, out_stream_metadata, opc,
                   out_video_data, out_seen_connected, vad_queue, audio_decoded>>
    /\ UNCHANGED <<health_timeout, threads, profile, states, health_age, tpc,
                   heartbeat_age, stop_event, plpc, pli, mpc, mtodo, unhealthy_threads,
                   all_states, newly_unhealthy, recovered, setup_calls, cleanup_calls,
                   watcher_stopped, join_result,
                   unhealthy_before, alerts>>
    /\ UNCHANGED otherThanFlow

\* _execute_cleanup (shutdown.py lines 49-58) calls Pipeline._cleanup; its line 216:
\* video_input_queue.clear()
CleanupClearInput ==
    /\ kpc = "clear_input"
    /\ video_input_queue' = <<>>
    /\ kpc' = "clear_output"
    /\ UNCHANGED <<input_connected, output_connected, stream_metadata,
                   video_output_queue, in_container, connection, decoded, ipc, vppc,
                   video_data, out_container, out_metadata, out_stream_metadata, opc,
                   out_video_data, out_seen_connected,
                   connected_at_shutdown,
                   vad_queue, audio_decoded>>
    /\ UNCHANGED <<otherThanFlow, lifeVars>>

\* Pipeline._cleanup, line 218: video_output_queue.clear()
CleanupClearOutput ==
    /\ kpc = "clear_output"
    /\ video_output_queue' = <<>>
    /\ kpc' = "clear_vad"
    /\ UNCHANGED <<input_connected, output_connected, stream_metadata,
                   video_input_queue, in_container, connection, decoded, ipc, vppc,
                   video_data, out_container, out_metadata, out_stream_metadata, opc,
                   out_video_data, out_seen_connected,
                   connected_at_shutdown,
                   vad_queue, audio_decoded>>
    /\ UNCHANGED <<otherThanFlow, lifeVars>>

\* Pipeline._cleanup, lines 221-222: vad_queue.clear()
CleanupClearVad ==
    /\ kpc = "clear_vad"
    /\ vad_queue' = <<>>
    /\ kpc' = "clear_speech"
    /\ UNCHANGED <<input_connected, output_connected, stream_metadata,
                   video_input_queue, video_output_queue, in_container, connection,
                   decoded, ipc, vppc, video_data, out_container, out_metadata,
                   out_stream_metadata, opc, out_video_data, out_seen_connected,
                   connected_at_shutdown, audio_decoded>>
    /\ UNCHANGED <<queueVars, lockVars, videoVars, poolVars, shutVars, allowVars, consentVars, lifeVars, vadVars, speechVars>>

\* Pipeline._cleanup, lines 223-224: speech_queue.clear()
CleanupClearSpeech ==
    /\ kpc = "clear_speech"
    /\ speech_queue' = <<>>
    /\ kpc' = "done"
    /\ UNCHANGED <<input_connected, output_connected, stream_metadata,
                   video_input_queue, video_output_queue, in_container, connection,
                   decoded, ipc, vppc, video_data, out_container, out_metadata,
                   out_stream_metadata, opc, out_video_data, out_seen_connected,
                   connected_at_shutdown, vad_queue, audio_decoded>>
    /\ UNCHANGED <<start_speech_prob, keep_speech_prob, stop_silence_samples,
                   min_segment_samples, in_speech, silence_samples, speech_buffer,
                   stream_time_offset, speech_start_time, segments_produced, probs>>
    /\ UNCHANGED <<queueVars, lockVars, videoVars, poolVars, shutVars, allowVars, consentVars, lifeVars, speechVars>>

FlowInit ==
    /\ FlowConstructed
    /\ VadConstructed
    /\ SpeechConstructed
    /\ AllowConstructed
    /\ LocksConstructed
    /\ VideoConstructed
    /\ PoolConstructed
    /\ ShutdownConstructed
    /\ LifeIdle
    /\ QueueConstructed
    /\ ConsentConstructed

FlowNext ==
    \/ InputLoop
    \/ InputConnect
    \/ InputPacket
    \/ InputStreamEnds
    \/ InputDisconnectSet
    \/ InputDisconnectClear
    \/ VideoLoop
    \/ VideoCheckConnected
    \/ VideoGet
    \/ VideoProcessAndPut
    \/ OutputLoop
    \/ OutputCheckConnected
    \/ OutputReadMetadata
    \/ OutputConnect
    \/ OutputOpen
    \/ OutputGet
    \/ OutputWrite
    \/ OutputAudio
    \/ OutputAudioError
    \/ OutputDisconnectSet
    \/ OutputDisconnectClear
    \/ CleanupClearInput
    \/ CleanupClearOutput
    \/ CleanupClearVad
    \/ CleanupClearSpeech
    \/ FlowShutdown

FlowSpec == FlowInit /\ [][FlowNext]_vars

\* the steps of the three stages of the video path, each on its own thread
InputStep ==
    \/ InputLoop
    \/ InputConnect
    \/ InputPacket
    \/ InputStreamEnds
    \/ InputDisconnectSet
    \/ InputDisconnectClear

VideoStep ==
    \/ VideoLoop
    \/ VideoCheckConnected
    \/ VideoGet
    \/ VideoProcessAndPut

OutputStep ==
    \/ OutputLoop
    \/ OutputCheckConnected
    \/ OutputReadMetadata
    \/ OutputConnect
    \/ OutputOpen
    \/ OutputGet
    \/ OutputWrite
    \/ OutputAudio
    \/ OutputAudioError
    \/ OutputDisconnectSet
    \/ OutputDisconnectClear

\* FlowSpec with the three stage threads scheduled: a step of a stage that can be
\* taken is eventually taken (every wait inside a step ends: the queue operations and
\* the stream operations have timeouts)
FlowFairSpec ==
    FlowSpec /\ WF_vars(InputStep) /\ WF_vars(VideoStep) /\ WF_vars(OutputStep)

(***************************************************************************)
(* VAD (threads/vad.py): the speech state machine of _process_vad_chunk.   *)
(* Samples are counted in chunks and stream time in chunk durations, so    *)
(* chunk_size and chunk_size / sampling_rate are both 1; a threshold in    *)
(* samples is the number of chunks that reaches it.  The speech            *)
(* probability of a chunk is the input.                                    *)
(***************************************************************************)
Probs == 0..MaxProb

\* _queue_speech_segment, vad.py lines 165-198, for a buffer of n chunks: nothing for
\* an empty or a too short buffer, else the segment is put on the speech queue
\* (DROP_OLDEST, pipeline.py lines 64-66)
queue_speech_segment(n) ==
    IF n = 0 \/ n < min_segment_samples
      THEN UNCHANGED <<speech_queue, segments_produced>>
      ELSE /\ speech_queue' =
                PutDropOldestWhole(speech_queue,
                                   [start_time |-> speech_start_time,
                                    end_time |-> stream_time_offset,
                                    samples |-> n])
           /\ segments_produced' = segments_produced + 1

\* _process_vad_chunk, vad.py lines 130-163, for a chunk the model rates prob
process_vad_chunk(prob) ==
    /\ Len(probs) < MaxChunks
    /\ probs' = Append(probs, prob)
    /\ IF in_speech
         THEN /\ UNCHANGED speech_start_time
              /\ IF prob > keep_speech_prob
                   THEN /\ speech_buffer' = speech_buffer + 1
                        /\ silence_samples' = 0
                        /\ UNCHANGED <<in_speech, speech_queue, segments_produced>>
                   ELSE IF silence_samples + 1 >= stop_silence_samples
                          THEN /\ in_speech' = FALSE
                               /\ queue_speech_segment(speech_buffer + 1)
                               /\ speech_buffer' = 0
                               /\ silence_samples' = 0
                          ELSE /\ speech_buffer' = speech_buffer + 1
                               /\ silence_samples' = silence_samples + 1
                               /\ UNCHANGED <<in_speech, speech_queue,
                                              segments_produced>>
         ELSE /\ UNCHANGED <<speech_queue, segments_produced>>
              /\ IF prob > start_speech_prob
                   THEN /\ in_speech' = TRUE
                        /\ speech_start_time' = stream_time_offset
                        /\ speech_buffer' = speech_buffer + 1
                        /\ silence_samples' = 0
                   ELSE UNCHANGED <<in_speech, speech_start_time, speech_buffer,
                                    silence_samples>>
    /\ stream_time_offset' = stream_time_offset + 1
    /\ UNCHANGED <<start_speech_prob, keep_speech_prob, stop_silence_samples,
                   min_segment_samples>>

\* _process_audio_frame, vad.py lines 123-128: each full chunk of the ring buffer is
\* given to _process_vad_chunk
VadChunk ==
    /\ \E prob \in Probs : process_vad_chunk(prob)
    /\ UNCHANGED otherThanVad

\* the VAD as constructed with any thresholds and durations (vad.py lines 21-24, 37-40)
VadInit ==
    /\ VadIdle
    /\ start_speech_prob \in 0..(MaxProb - 1)
    /\ keep_speech_prob \in 0..(MaxProb - 1)
    /\ stop_silence_samples \in 1..MaxStopSilence
    /\ min_segment_samples \in 0..MaxMinSegment
    /\ QueueConstructed
    /\ ConsentConstructed
    /\ LifeIdle
    /\ FlowConstructed
    /\ SpeechConstructed
    /\ AllowConstructed
    /\ LocksConstructed
    /\ VideoConstructed
    /\ PoolConstructed
    /\ ShutdownConstructed

VadNext == VadChunk

VadSpec == VadInit /\ [][VadNext]_vars

(***************************************************************************)
(* The speech path: the Input Demuxer's audio frames reach the VAD through *)
(* vad_queue; the VAD's iterations run beside the demuxer's connects and   *)
(* disconnects.  An audio frame is the number of the connection it was     *)
(* decoded from, and yields at most one chunk.                             *)
(***************************************************************************)
\* BoundedQueue.put with DROP_NEWEST (the strategy of vad_queue, pipeline.py lines
\* 60-62, queues.py lines 36-47) and capacity MaxQueued
PutDropNewestWhole(q, x) ==
    IF Len(q) >= MaxQueued THEN q ELSE Append(q, x)

\* _process_single_packet, input.py lines 153-157, and _process_audio_frame, lines
\* 179-191: an audio packet is decoded and its frame put into vad_queue
InputAudioPacket ==
    /\ ipc = "iter"
    /\ in_container
    /\ "has_audio" \in stream_metadata
    /\ audio_decoded < MaxAudio
    /\ audio_decoded' = audio_decoded + 1
    /\ vad_queue' = PutDropNewestWhole(vad_queue, connection)
    /\ ipc' = "loop"
    /\ UNCHANGED <<input_connected, output_connected, stream_metadata,
                   video_input_queue, video_output_queue, in_container, connection,
                   decoded, vppc, video_data, out_container, out_metadata,
                   out_stream_metadata, opc, out_video_data, out_seen_connected, kpc,
                   connected_at_shutdown>>
    /\ UNCHANGED <<otherThanFlow, lifeVars>>

vadConfig == <<start_speech_prob, keep_speech_prob, stop_silence_samples,
               min_segment_samples>>

vadMachine == <<in_speech, silence_samples, speech_buffer, stream_time_offset,
                speech_start_time, segments_produced, speech_queue, probs>>

\* base.py line 35 in the VAD's run(): stop -> cleanup(), else iterate
VadLoop ==
    /\ vadpc = "loop"
    /\ vadpc' = IF shutdown THEN "cleanup" ELSE "check"
    /\ UNCHANGED <<vad_audio_data, ring_buffer, buffer_connections,
                   segment_connections, flushed, workerVars>>
    /\ UNCHANGED <<queueVars, lockVars, videoVars, poolVars, shutVars, allowVars, consentVars, lifeVars, flowVars, vadVars>>

\* vad.py lines 68-74: input not connected: buffers and state are reset if anything
\* is buffered, and the iteration returns
VadCheckConnected ==
    /\ vadpc = "check"
    /\ IF ~input_connected
         THEN /\ vadpc' = "loop"
              /\ IF speech_buffer # 0 \/ ring_buffer # {}
                   THEN /\ speech_buffer' = 0
                        /\ buffer_connections' = {}
                        /\ ring_buffer' = {}
                        /\ in_speech' = FALSE
                        /\ silence_samples' = 0
                   ELSE UNCHANGED <<speech_buffer, buffer_connections, ring_buffer,
                                    in_speech, silence_samples>>
         ELSE /\ vadpc' = "get"
              /\ UNCHANGED <<speech_buffer, buffer_connections, ring_buffer,
                             in_speech, silence_samples>>
    /\ UNCHANGED <<vad_audio_data, segment_connections, flushed, workerVars>>
    /\ UNCHANGED <<vadConfig, stream_time_offset, speech_start_time,
                   segments_produced, speech_queue, probs>>
    /\ UNCHANGED <<queueVars, lockVars, videoVars, poolVars, shutVars, allowVars, consentVars, lifeVars, flowVars>>

\* vad.py lines 76-79: input_queue.get(timeout=QUEUE_TIMEOUT)
VadGet ==
    /\ vadpc = "get"
    /\ IF vad_queue # <<>>
         THEN /\ vad_audio_data' = Head(vad_queue)
              /\ vad_queue' = Tail(vad_queue)
              /\ vadpc' = "process"
         ELSE /\ vadpc' = "loop"
              /\ UNCHANGED <<vad_audio_data, vad_queue>>
    /\ UNCHANGED <<ring_buffer, buffer_connections, segment_connections, flushed,
                   workerVars>>
    /\ UNCHANGED <<input_connected, output_connected, stream_metadata,
                   video_input_queue, video_output_queue, in_container, connection,
                   decoded, ipc, vppc, video_data, out_container, out_metadata,
                   out_stream_metadata, opc, out_video_data, out_seen_connected, kpc,
                   connected_at_shutdown, audio_decoded>>
    /\ UNCHANGED <<queueVars, lockVars, videoVars, poolVars, shutVars, allowVars, consentVars, lifeVars, vadVars>>

\* vad.py line 82 and _process_audio_frame, lines 101-128: the frame's samples join
\* the ring buffer; if that fills a chunk, the chunk goes to _process_vad_chunk
VadProcessFrame ==
    /\ vadpc = "process"
    /\ vadpc' = "loop"
    /\ vad_audio_data' = 0
    /\ UNCHANGED <<flushed, workerVars>>
    /\ LET chunk == ring_buffer \cup {vad_audio_data} IN
         \/ /\ ring_buffer' = chunk
            /\ UNCHANGED <<buffer_connections, segment_connections>>
            /\ UNCHANGED vadVars
         \/ /\ ring_buffer' \in {{}, {vad_audio_data}}
            /\ \E prob \in Probs : process_vad_chunk(prob)
            /\ buffer_connections' =
                  IF speech_buffer' = 0 THEN {}
                  ELSE IF speech_buffer' > speech_buffer
                         THEN buffer_connections \cup chunk
                         ELSE buffer_connections
            /\ segment_connections' =
                  IF segments_produced' > segments_produced
                    THEN Append(segment_connections, buffer_connections \cup chunk)
                    ELSE segment_connections
    /\ UNCHANGED <<queueVars, lockVars, videoVars, poolVars, shutVars, allowVars, consentVars, lifeVars, flowVars>>

\* VADThread.cleanup, vad.py lines 200-211: buffered speech is queued as a final
\* segment and the buffers are cleared
VadCleanup ==
    /\ vadpc = "cleanup"
    /\ vadpc' = "done"
    /\ queue_speech_segment(speech_buffer)
    /\ segment_connections' =
          IF segments_produced' > segments_produced
            THEN Append(segment_connections, buffer_connections)
            ELSE segment_connections
    /\ ring_buffer' = {}
    /\ speech_buffer' = 0
    /\ buffer_connections' = {}
    /\ flushed' = IF segments_produced' > segments_produced
                    THEN <<speech_queue'[Len(speech_queue')]>>
                    ELSE <<>>
    /\ UNCHANGED <<vad_audio_data, workerVars>>
    /\ UNCHANGED <<vadConfig, in_speech, silence_samples, stream_time_offset,
                   speech_start_time, probs>>
    /\ UNCHANGED <<queueVars, lockVars, videoVars, poolVars, shutVars, allowVars, consentVars, lifeVars, flowVars>>

\* ---- Speech Worker ----
\* base.py line 35 in the Speech Worker's run(): stop -> cleanup(), else iterate
SwLoop ==
    /\ swpc = "loop"
    /\ swpc' = IF shutdown THEN "drain" ELSE "get"
    /\ UNCHANGED <<sw_segment, sw_last, sw_done, vadThreadVars>>
    /\ UNCHANGED <<queueVars, lockVars, videoVars, poolVars, shutVars, allowVars, consentVars, lifeVars, flowVars, vadVars>>

\* speech_worker.py lines 52-55: input_queue.get(timeout=QUEUE_TIMEOUT)
SwGet ==
    /\ swpc = "get"
    /\ IF speech_queue # <<>>
         THEN /\ sw_segment' = <<Head(speech_queue)>>
              /\ speech_queue' = Tail(speech_queue)
              /\ swpc' = "transcribe"
         ELSE /\ swpc' = "loop"
              /\ UNCHANGED <<sw_segment, speech_queue>>
    /\ UNCHANGED <<sw_last, sw_done, vadThreadVars>>
    /\ UNCHANGED <<vadConfig, in_speech, silence_samples, speech_buffer,
                   stream_time_offset, speech_start_time, segments_produced, probs>>
    /\ UNCHANGED <<queueVars, lockVars, videoVars, poolVars, shutVars, allowVars, consentVars, lifeVars, flowVars>>

\* cleanup, speech_worker.py lines 121-128 and 136: the queue is drained with
\* get(timeout=0.1) until it returns None, then the worker ends
SwDrainGet ==
    /\ swpc = "drain"
    /\ IF speech_queue # <<>>
         THEN /\ sw_segment' = <<Head(speech_queue)>>
              /\ speech_queue' = Tail(speech_queue)
              /\ swpc' = "drain_transcribe"
         ELSE /\ swpc' = "done"
              /\ UNCHANGED <<sw_segment, speech_queue>>
    /\ UNCHANGED <<sw_last, sw_done, vadThreadVars>>
    /\ UNCHANGED <<vadConfig, in_speech, silence_samples, speech_buffer,
                   stream_time_offset, speech_start_time, segments_produced, probs>>
    /\ UNCHANGED <<queueVars, lockVars, videoVars, poolVars, shutVars, allowVars, consentVars, lifeVars, flowVars>>

\* what one _transcribe_segment call did: the depth it read, whether it dropped the
\* segment, whether it ran the transcription, whether that gave text, whether the
\* detector reported consent, whether set_consent was called, and which oracle
\* raised: "transcribe" (asr.transcribe, caught at lines 117-118), "detect"
\* (detect_consent, caught at lines 111-112) or "none"
Did(depth, dropped, transcribed, text, consent, called, error) ==
    <<[depth |-> depth, dropped |-> dropped, transcribed |-> transcribed,
       text |-> text, consent |-> consent, called |-> called, error |-> error]>>

\* the fields of ConsentState that set_consent writes (state.py; the call of
\* speech_worker.py lines 107-109)
sw_set_consent(n) ==
    /\ nEvents < MaxEvents
    /\ has_consent' = TRUE
    /\ speaker_name' = n
    /\ capture_next_frame' = TRUE
    /\ consented_names' = IF n # None THEN consented_names \cup {Lower(n)}
                          ELSE consented_names
    /\ nEvents' = nEvents + 1
    /\ flagEvent' = nEvents + 1
    /\ UNCHANGED <<vpc, vframe, vfile, entered, captureLog>>

\* (variant of SwTranscribe: an error of an oracle ends the worker)
SwTranscribeErrorEscapes ==
    /\ swpc \in {"transcribe", "drain_transcribe"}
    /\ sw_segment' = <<>>
    /\ sw_done' = sw_done \cup Range(sw_segment)
    /\ LET depth == Len(speech_queue) IN
         IF depth > QueueDepthLimit
           THEN /\ sw_last' = Did(depth, TRUE, FALSE, FALSE, FALSE, FALSE, "none")
                /\ UNCHANGED consentVars
           ELSE \/ /\ sw_last' = Did(depth, FALSE, TRUE, FALSE, FALSE, FALSE, "transcribe")
                   /\ UNCHANGED consentVars
                \/ /\ sw_last' = Did(depth, FALSE, TRUE, FALSE, FALSE, FALSE, "none")
                   /\ UNCHANGED consentVars
                \/ /\ sw_last' = Did(depth, FALSE, TRUE, TRUE, FALSE, FALSE, "none")
                   /\ UNCHANGED consentVars
                \/ /\ sw_last' = Did(depth, FALSE, TRUE, TRUE, FALSE, FALSE, "detect")
                   /\ UNCHANGED consentVars
                \/ /\ sw_last' = Did(depth, FALSE, TRUE, TRUE, TRUE, TRUE, "none")
                   /\ \E n \in Names \cup {None} : sw_set_consent(n)
    /\ swpc' = IF sw_last'[1].error # "none" THEN "done"
               ELSE IF swpc = "transcribe" THEN "loop" ELSE "drain"
    /\ UNCHANGED vadThreadVars
    /\ UNCHANGED <<queueVars, lockVars, videoVars, poolVars, shutVars, allowVars, lifeVars, flowVars, vadVars>>

\* (variant of SwTranscribe: a segment is dropped already at the threshold depth)
SwTranscribeDropsAtLimit ==
    /\ swpc \in {"transcribe", "drain_transcribe"}
    /\ swpc' = IF swpc = "transcribe" THEN "loop" ELSE "drain"
    /\ sw_segment' = <<>>
    /\ sw_done' = sw_done \cup Range(sw_segment)
    /\ LET depth == Len(speech_queue) IN
         IF depth >= QueueDepthLimit
           THEN /\ sw_last' = Did(depth, TRUE, FALSE, FALSE, FALSE, FALSE, "none")
                /\ UNCHANGED consentVars
           ELSE \/ /\ sw_last' = Did(depth, FALSE, TRUE, FALSE, FALSE, FALSE, "transcribe")
                   /\ UNCHANGED consentVars
                \/ /\ sw_last' = Did(depth, FALSE, TRUE, FALSE, FALSE, FALSE, "none")
                   /\ UNCHANGED consentVars
                \/ /\ sw_last' = Did(depth, FALSE, TRUE, TRUE, FALSE, FALSE, "none")
                   /\ UNCHANGED consentVars
                \/ /\ sw_last' = Did(depth, FALSE, TRUE, TRUE, FALSE, FALSE, "detect")
                   /\ UNCHANGED consentVars
                \/ /\ sw_last' = Did(depth, FALSE, TRUE, TRUE, TRUE, TRUE, "none")
                   /\ \E n \in Names \cup {None} : sw_set_consent(n)
    /\ UNCHANGED vadThreadVars
    /\ UNCHANGED <<queueVars, lockVars, videoVars, poolVars, shutVars, allowVars, lifeVars, flowVars, vadVars>>

\* _transcribe_segment, speech_worker.py lines 64-118: with more than the threshold
\* queued the segment is dropped (lines 69-77); else it is transcribed, which raises
\* or gives no text (lines 81-91, 117-118), or gives text: then the detector is
\* missing, raises or reports no consent, or reports consent and set_consent is
\* called (lines 102-112)
SwTranscribe ==
    /\ swpc \in {"transcribe", "drain_transcribe"}
    /\ swpc' = IF swpc = "transcribe" THEN "loop" ELSE "drain"
    /\ sw_segment' = <<>>
    /\ sw_done' = sw_done \cup Range(sw_segment)
    /\ LET depth == Len(speech_queue) IN
         IF depth > QueueDepthLimit
           THEN /\ sw_last' = Did(depth, TRUE, FALSE, FALSE, FALSE, FALSE, "none")
                /\ UNCHANGED consentVars
           ELSE \/ /\ sw_last' = Did(depth, FALSE, TRUE, FALSE, FALSE, FALSE, "transcribe")
                   /\ UNCHANGED consentVars
                \/ /\ sw_last' = Did(depth, FALSE, TRUE, FALSE, FALSE, FALSE, "none")
                   /\ UNCHANGED consentVars
                \/ /\ sw_last' = Did(depth, FALSE, TRUE, TRUE, FALSE, FALSE, "none")
                   /\ UNCHANGED consentVars
                \/ /\ sw_last' = Did(depth, FALSE, TRUE, TRUE, FALSE, FALSE, "detect")
                   /\ UNCHANGED consentVars
                \/ /\ sw_last' = Did(depth, FALSE, TRUE, TRUE, TRUE, TRUE, "none")
                   /\ \E n \in Names \cup {None} : sw_set_consent(n)
    /\ UNCHANGED vadThreadVars
    /\ UNCHANGED <<queueVars, lockVars, videoVars, poolVars, shutVars, allowVars, lifeVars, flowVars, vadVars>>

\* ---- the Speech Worker with a backlog ----
\* a VAD's _queue_speech_segment (vad.py lines 177-187) puts one more segment into the
\* speech queue: DROP_OLDEST with capacity SPEECH_QUEUE_SIZE (pipeline.py lines 63-66)
SpeechArrives ==
    /\ segments_produced < MaxSegments
    /\ segments_produced' = segments_produced + 1
    /\ LET segment == [start_time |-> segments_produced,
                       end_time |-> segments_produced + 1,
                       samples |-> min_segment_samples]
       IN speech_queue' = IF Len(speech_queue) >= SPEECH_QUEUE_SIZE
                            THEN Append(Tail(speech_queue), segment)
                            ELSE Append(speech_queue, segment)
    /\ UNCHANGED <<vadConfig, in_speech, silence_samples, speech_buffer,
                   stream_time_offset, speech_start_time, probs>>
    /\ UNCHANGED speechVars
    /\ UNCHANGED <<queueVars, lockVars, videoVars, poolVars, shutVars, allowVars, consentVars, lifeVars, flowVars>>

WorkerInit ==
    /\ SpeechConstructed
    /\ VadConstructed
    /\ QueueConstructed
    /\ ConsentConstructed
    /\ LifeIdle
    /\ FlowConstructed
    /\ AllowConstructed
    /\ LocksConstructed
    /\ VideoConstructed
    /\ PoolConstructed
    /\ ShutdownConstructed

WorkerNext ==
    \/ SpeechArrives
    \/ SwLoop
    \/ SwGet
    \/ SwTranscribe

WorkerSpec == WorkerInit /\ [][WorkerNext]_vars

SpeechInit ==
    /\ SpeechConstructed
    /\ AllowConstructed
    /\ LocksConstructed
    /\ VideoConstructed
    /\ PoolConstructed
    /\ ShutdownConstructed
    /\ VadConstructed
    /\ FlowConstructed
    /\ LifeIdle
    /\ QueueConstructed
    /\ ConsentConstructed

SpeechNext ==
    \/ InputLoop
    \/ InputConnect
    \/ InputAudioPacket
    \/ InputStreamEnds
    \/ InputDisconnectSet
    \/ InputDisconnectClear
    \/ VadLoop
    \/ VadCheckConnected
    \/ VadGet
    \/ VadProcessFrame
    \/ VadCleanup
    \/ SwLoop
    \/ SwGet
    \/ SwDrainGet
    \/ SwTranscribe
    \/ FlowShutdown
    \/ CleanupClearInput
    \/ CleanupClearOutput
    \/ CleanupClearVad
    \/ CleanupClearSpeech

SpeechSpec == SpeechInit /\ [][SpeechNext]_vars

(***************************************************************************)
(* The allow-list.  FaceRecognizer.consented_faces is a list of            *)
(* (file_path, name, encoding) records; the name is a function of the file *)
(* name and is left out.  The consent watcher handles the changes that     *)
(* watch() yields, in the order they happened; the Video Processor's       *)
(* capture path writes a file and registers the face itself; files are     *)
(* written and deleted externally.  Every call into FaceRecognizer holds   *)
(* its lock, so each is one step.                                          *)
(***************************************************************************)
Dist(a, b) == IF a >= b THEN a - b ELSE b - a

HasRecord(faces, f) == \E i \in 1..Len(faces) : faces[i].file_path = f

\* the list without the records of file f (the comprehension of
\* face_recognizer.py lines 113-115 and 126-128)
WithoutFile(faces, f) == SelectSeq(faces, LAMBDA entry : entry.file_path # f)

\* FaceRecognizer.add_consented_face, face_recognizer.py lines 106-120
add_consented_face(faces, encoding, f) ==
    Append(WithoutFile(faces, f), [file_path |-> f, encoding |-> encoding])

\* FaceRecognizer.remove_consented_face_by_file, face_recognizer.py lines 122-134
remove_consented_face_by_file(faces, f) == WithoutFile(faces, f)

\* (variant of match_face: a face at exactly the threshold distance is no match)
match_face_strict(faces, encoding) ==
    IF faces = <<>> THEN FALSE
    ELSE LET distances == [i \in 1..Len(faces) |-> Dist(faces[i].encoding, encoding)]
             best_match_index == CHOOSE i \in 1..Len(faces) :
                                    \A j \in 1..Len(faces) : distances[i] <= distances[j]
         IN distances[best_match_index] < FACE_DISTANCE_THRESHOLD

\* FaceRecognizer.match_face, face_recognizer.py lines 136-165: is_recognized
match_face(faces, encoding) ==
    IF faces = <<>> THEN FALSE
    ELSE LET distances == [i \in 1..Len(faces) |-> Dist(faces[i].encoding, encoding)]
             best_match_index == CHOOSE i \in 1..Len(faces) :
                                    \A j \in 1..Len(faces) : distances[i] <= distances[j]
         IN distances[best_match_index] <= FACE_DISTANCE_THRESHOLD

\* what an image or a frame region yields: no encoding, or one
Extracted == {{}} \cup {{e} : e \in Encodings}

watcherVars == <<wpc, w_change, w_encoding>>
captureVars == <<capture_pc, capture_file, capture_encoding, captures>>

\* ---- the consent directory, written from outside ----
\* a consent image is created or overwritten: watch() will report added or modified
ExternalWrite ==
    /\ external_ops < MaxExternal
    /\ external_ops' = external_ops + 1
    /\ \E f \in Files, content \in Extracted :
         /\ on_disk' = on_disk \cup {f}
         /\ image' = [image EXCEPT ![f] = content]
         /\ changes' = Append(changes,
                              <<IF f \in on_disk THEN "modified" ELSE "added", f>>)
    /\ UNCHANGED <<consented_faces, watcherVars, captureVars, frame_out>>
    /\ UNCHANGED otherThanAllow

\* a consent image is deleted: watch() will report deleted
ExternalDelete ==
    /\ external_ops < MaxExternal
    /\ external_ops' = external_ops + 1
    /\ \E f \in on_disk :
         /\ on_disk' = on_disk \ {f}
         /\ image' = [image EXCEPT ![f] = {}]
         /\ changes' = Append(changes, <<"deleted", f>>)
    /\ UNCHANGED <<consented_faces, watcherVars, captureVars, frame_out>>
    /\ UNCHANGED otherThanAllow

\* ---- consent watcher ----
\* _monitor_consent_directory, consent_manager.py lines 134-147: the next change is
\* given to _handle_file_change
WatcherTake ==
    /\ wpc = "watch"
    /\ changes # <<>>
    /\ w_change' = <<Head(changes)>>
    /\ changes' = Tail(changes)
    /\ w_encoding' = {}
    /\ wpc' = IF Head(changes)[1] = "deleted" THEN "deleted" ELSE "exists"
    /\ UNCHANGED <<consented_faces, on_disk, image, external_ops, captureVars,
                   frame_out>>
    /\ UNCHANGED otherThanAllow

\* _handle_file_change, lines 157-165: added or modified; a file that does not exist
\* is skipped; for a modified file the old record is removed first
WatcherExists ==
    /\ wpc = "exists"
    /\ IF w_change[1][2] \in on_disk
         THEN /\ wpc' = IF w_change[1][1] = "modified" THEN "remove" ELSE "read"
              /\ UNCHANGED w_change
         ELSE /\ wpc' = "watch"
              /\ w_change' = <<>>
    /\ UNCHANGED <<consented_faces, on_disk, image, changes, external_ops, w_encoding,
                   captureVars, frame_out>>
    /\ UNCHANGED otherThanAllow

\* _handle_file_change, lines 161-162: remove_consented_face_by_file(file_path)
WatcherRemove ==
    /\ wpc = "remove"
    /\ consented_faces' = remove_consented_face_by_file(consented_faces, w_change[1][2])
    /\ wpc' = "read"
    /\ UNCHANGED <<on_disk, image, changes, external_ops, w_change, w_encoding,
                   captureVars, frame_out>>
    /\ UNCHANGED otherThanAllow

\* _process_consent_file, lines 58-63 and 69-70: cv2.imread and
\* _extract_face_features; no image or no encoding: nothing is registered
WatcherRead ==
    /\ wpc = "read"
    /\ LET f == w_change[1][2]
           encoding == IF f \in on_disk THEN image[f] ELSE {}
       IN /\ w_encoding' = encoding
          /\ IF encoding = {}
               THEN wpc' = "watch" /\ w_change' = <<>>
               ELSE wpc' = "add" /\ UNCHANGED w_change
    /\ UNCHANGED <<consented_faces, on_disk, image, changes, external_ops, captureVars,
                   frame_out>>
    /\ UNCHANGED otherThanAllow

\* _process_consent_file, lines 64-66: add_consented_face(name, encoding, file_path)
WatcherAdd ==
    /\ wpc = "add"
    /\ \E encoding \in w_encoding :
         consented_faces' = add_consented_face(consented_faces, encoding, w_change[1][2])
    /\ wpc' = "watch"
    /\ w_change' = <<>>
    /\ UNCHANGED <<on_disk, image, changes, external_ops, w_encoding, captureVars,
                   frame_out>>
    /\ UNCHANGED otherThanAllow

\* _handle_file_change, lines 167-170: deleted: remove_consented_face_by_file
WatcherDeleted ==
    /\ wpc = "deleted"
    /\ consented_faces' = remove_consented_face_by_file(consented_faces, w_change[1][2])
    /\ wpc' = "watch"
    /\ w_change' = <<>>
    /\ UNCHANGED <<on_disk, image, changes, external_ops, w_encoding, captureVars,
                   frame_out>>
    /\ UNCHANGED otherThanAllow

\* ---- the capture path of the Video Processor ----
\* video.py lines 79-90 with save_head_image (consent_capture.py lines 66-76): the
\* head image is written to a new file and extract_feature is run on the frame
CaptureSaveFile ==
    /\ capture_pc = "idle"
    /\ captures < MaxCaptures
    /\ captures' = captures + 1
    /\ \E f \in Files \ on_disk, content \in Extracted, encoding \in Extracted :
         /\ on_disk' = on_disk \cup {f}
         /\ image' = [image EXCEPT ![f] = content]
         /\ changes' = Append(changes, <<"added", f>>)
         /\ capture_file' = <<f>>
         /\ capture_encoding' = encoding
    /\ capture_pc' = "register"
    /\ UNCHANGED <<consented_faces, external_ops, watcherVars, frame_out>>
    /\ UNCHANGED otherThanAllow

\* video.py lines 92-104: with an encoding, add_consented_face(name, encoding,
\* Path(capture_path)); without one nothing is registered
CaptureAddFace ==
    /\ capture_pc = "register"
    /\ IF capture_encoding = {}
         THEN UNCHANGED consented_faces
         ELSE \E encoding \in capture_encoding :
                consented_faces' =
                    add_consented_face(consented_faces, encoding, capture_file[1])
    /\ capture_pc' = "idle"
    /\ capture_file' = <<>>
    /\ capture_encoding' = {}
    /\ UNCHANGED <<on_disk, image, changes, external_ops, watcherVars, captures,
                   frame_out>>
    /\ UNCHANGED otherThanAllow

\* ---- recognition of the faces of one frame ----
\* process_faces_with_recognition, face_detector.py lines 164-186, for one detected
\* face: with records in the list an encoding is extracted (or not) and matched; a
\* face that is not recognized is anonymized, a recognized one is left as it is
RecognizeFace ==
    /\ Len(frame_out) < MaxFaces
    /\ \E extracted \in Extracted :
         LET is_recognized ==
               /\ Len(consented_faces) > 0
               /\ extracted # {}
               /\ \E encoding \in extracted : match_face(consented_faces, encoding)
         IN frame_out' = Append(frame_out,
                                [encoding |-> extracted, blurred |-> ~is_recognized])
    /\ UNCHANGED <<consented_faces, on_disk, image, changes, external_ops, watcherVars,
                   captureVars>>
    /\ UNCHANGED otherThanAllow

FaceRecords == [file_path : Files, encoding : Encodings]

\* the lists the allow-list can hold: at most one record per file, in either order
AllowLists ==
    {<<>>}
      \cup {<<r>> : r \in FaceRecords}
      \cup {l \in {<<r, q>> : r \in FaceRecords, q \in FaceRecords} :
              l[1].file_path # l[2].file_path}

\* the allow-list after load_existing_consents (consent_manager.py lines 34-47) on
\* any consent directory: one record per image that yields an encoding
RecognitionInit ==
    /\ consented_faces \in AllowLists
    /\ on_disk = {consented_faces[i].file_path : i \in 1..Len(consented_faces)}
    /\ image = [f \in Files |->
                  {consented_faces[i].encoding :
                     i \in {k \in 1..Len(consented_faces) :
                              consented_faces[k].file_path = f}}]
    /\ changes = <<>>
    /\ external_ops = 0
    /\ wpc = "watch"
    /\ w_change = <<>>
    /\ w_encoding = {}
    /\ capture_pc = "idle"
    /\ capture_file = <<>>
    /\ capture_encoding = {}
    /\ captures = 0
    /\ frame_out = <<>>
    /\ QueueConstructed
    /\ ConsentConstructed
    /\ LifeIdle
    /\ FlowConstructed
    /\ VadConstructed
    /\ SpeechConstructed
    /\ PoolConstructed
    /\ VideoConstructed
    /\ LocksConstructed
    /\ ShutdownConstructed

RecognitionNext == RecognizeFace

RecognitionSpec == RecognitionInit /\ [][RecognitionNext]_vars

AllowInit ==
    /\ AllowConstructed
    /\ LocksConstructed
    /\ VideoConstructed
    /\ PoolConstructed
    /\ ShutdownConstructed
    /\ QueueConstructed
    /\ ConsentConstructed
    /\ LifeIdle
    /\ FlowConstructed
    /\ VadConstructed
    /\ SpeechConstructed

AllowNext ==
    \/ ExternalWrite
    \/ ExternalDelete
    \/ WatcherTake
    \/ WatcherExists
    \/ WatcherRemove
    \/ WatcherRead
    \/ WatcherAdd
    \/ WatcherDeleted
    \/ CaptureSaveFile
    \/ CaptureAddFace

AllowSpec == AllowInit /\ [][AllowNext]_vars

(***************************************************************************)
(* VideoProcessingThread: what becomes of a frame after the consent        *)
(* capture (threads/video.py, lines 56-72 and 114-150).  The capture path  *)
(* is the one of ConsentSpec; the frame's number is vframe.                *)
(***************************************************************************)
\* output_queue.put(processed_frame, timeout), video.py line 59: the frame is
\* queued, or put returns False and the frame is counted as dropped (line 60)
PutProcessed(x) ==
    \/ forwarded' = Append(forwarded, x)
    \/ UNCHANGED forwarded

\* (variant of VideoAnonymizeAndPut: when detection or anonymization raises the
\* frame is forwarded as it came)
VideoAnonymizeOrPassThrough ==
    /\ vpc = "process"
    /\ vpc' = "idle"
    /\ IF disable_video_processing
         THEN PutProcessed([frame |-> vframe, processed |-> FALSE])
         ELSE IF ~face_detector
           THEN UNCHANGED forwarded
           ELSE \/ PutProcessed([frame |-> vframe, processed |-> FALSE])
                \/ PutProcessed([frame |-> vframe, processed |-> TRUE])
    /\ UNCHANGED <<disable_video_processing, face_detector>>
    /\ UNCHANGED <<has_consent, speaker_name, capture_next_frame, consented_names,
                   nEvents, flagEvent, vframe, vfile, entered, captureLog>>
    /\ UNCHANGED otherThanVideo

\* video.py lines 114-150, then lines 59-72 of process_iteration: with processing
\* disabled the frame passes through as it came; without a detector _process_frame
\* raises (lines 125-126); otherwise process_faces_with_recognition raises or
\* returns the processed frame. An exception reaches the except of lines 70-72 and
\* nothing is put; a returned frame is put on the output queue.
VideoAnonymizeAndPut ==
    /\ vpc = "process"
    /\ vpc' = "idle"
    /\ IF disable_video_processing
         THEN PutProcessed([frame |-> vframe, processed |-> FALSE])
         ELSE IF ~face_detector
           THEN UNCHANGED forwarded
           ELSE \/ UNCHANGED forwarded
                \/ PutProcessed([frame |-> vframe, processed |-> TRUE])
    /\ UNCHANGED <<disable_video_processing, face_detector>>
    /\ UNCHANGED <<has_consent, speaker_name, capture_next_frame, consented_names,
                   nEvents, flagEvent, vframe, vfile, entered, captureLog>>
    /\ UNCHANGED otherThanVideo

\* the Video Processor in its loop: processing enabled or disabled (misc/config.py
\* lines 65-67); face_detector is None until setup() and stays None when
\* processing is disabled (video.py lines 33 and 37-44)
VideoInit ==
    /\ disable_video_processing \in BOOLEAN
    /\ face_detector \in (IF disable_video_processing THEN {FALSE} ELSE BOOLEAN)
    /\ forwarded = <<>>
    /\ ConsentConstructed
    /\ QueueConstructed
    /\ LifeIdle
    /\ FlowConstructed
    /\ VadConstructed
    /\ SpeechConstructed
    /\ AllowConstructed
    /\ LocksConstructed
    /\ PoolConstructed
    /\ ShutdownConstructed

VideoNext ==
    \/ \E n \in Names \cup {None} : set_consent(n)
    \/ VideoShouldCapture
    \/ VideoSaveHeadImage
    \/ VideoRegisterFace
    \/ VideoResetCapture
    \/ VideoAnonymizeAndPut

VideoSpec == VideoInit /\ [][VideoNext]_vars

(***************************************************************************)
(* The mutexes of the shared structures.  Every method of ConsentState,    *)
(* ConnectionState, ThreadStateManager, MetricsCollector and               *)
(* FaceRecognizer that touches the data is one `with self._lock` block     *)
(* whose body reads or writes fields and logs; the callers call these      *)
(* methods one at a time, between their queue operations and oracle calls. *)
(***************************************************************************)
\* a thread reaches `with self._lock` of a method of structure m
LockRequest(t, m) ==
    /\ lock_pc[t] = "outside"
    /\ m \in Uses(t)
    /\ lock_pc' = [lock_pc EXCEPT ![t] = "waiting"]
    /\ wants' = [wants EXCEPT ![t] = m]
    /\ UNCHANGED <<mutex_owner, mutex_count>>
    /\ UNCHANGED otherThanLocks

\* the waiting thread gets the mutex once it is free
LockAcquire(t) ==
    /\ lock_pc[t] = "waiting"
    /\ mutex_owner[wants[t]] = "free"
    /\ mutex_owner' = [mutex_owner EXCEPT ![wants[t]] = t]
    /\ mutex_count' = [mutex_count EXCEPT ![wants[t]] = 1]
    /\ lock_pc' = [lock_pc EXCEPT ![t] = "inside"]
    /\ wants' = [wants EXCEPT ![t] = "none"]
    /\ UNCHANGED otherThanLocks

\* ThreadStateManager.all_healthy, state.py lines 174-180: is_healthy is called
\* inside the with block and takes the same RLock again, without waiting
LockReenter(t) ==
    /\ t = "pipeline"
    /\ lock_pc[t] = "inside"
    /\ mutex_owner["states"] = t
    /\ mutex_count["states"] = 1
    /\ mutex_count' = [mutex_count EXCEPT !["states"] = 2]
    /\ UNCHANGED <<mutex_owner, lock_pc, wants>>
    /\ UNCHANGED otherThanLocks

\* the end of a with block: the mutex is free again when its owner has left every
\* with block it entered
LockRelease(t, m) ==
    /\ lock_pc[t] = "inside"
    /\ mutex_owner[m] = t
    /\ mutex_count' = [mutex_count EXCEPT ![m] = @ - 1]
    /\ IF mutex_count[m] = 1
         THEN /\ mutex_owner' = [mutex_owner EXCEPT ![m] = "free"]
              /\ lock_pc' = [lock_pc EXCEPT ![t] = "outside"]
         ELSE UNCHANGED <<mutex_owner, lock_pc>>
    /\ UNCHANGED wants
    /\ UNCHANGED otherThanLocks

\* (variant of QueueWait: a queue operation inside a with block)
QueueWaitInside(t) ==
    /\ lock_pc[t] \in {"outside", "inside"}
    /\ t \in QueueUsers
    /\ lock_pc' = [lock_pc EXCEPT ![t] = "queue"]
    /\ UNCHANGED <<mutex_owner, mutex_count, wants>>
    /\ UNCHANGED otherThanLocks

\* a get or put with a timeout on a BoundedQueue, called between the methods of the
\* structures
QueueWait(t) ==
    /\ lock_pc[t] = "outside"
    /\ t \in QueueUsers
    /\ lock_pc' = [lock_pc EXCEPT ![t] = "queue"]
    /\ UNCHANGED <<mutex_owner, mutex_count, wants>>
    /\ UNCHANGED otherThanLocks

\* a call of the face detector, the face encoder (extract_feature takes no lock,
\* face_recognizer.py lines 30-104), the transcription or the consent detector
OracleCall(t) ==
    /\ lock_pc[t] = "outside"
    /\ t \in OracleUsers
    /\ lock_pc' = [lock_pc EXCEPT ![t] = "oracle"]
    /\ UNCHANGED <<mutex_owner, mutex_count, wants>>
    /\ UNCHANGED otherThanLocks

\* the queue operation or the oracle call returns
BlockingReturns(t) ==
    /\ lock_pc[t] \in {"queue", "oracle"}
    /\ lock_pc' = [lock_pc EXCEPT ![t] = "outside"]
    /\ UNCHANGED <<mutex_owner, mutex_count, wants>>
    /\ UNCHANGED otherThanLocks

LocksInit ==
    /\ LocksConstructed
    /\ QueueConstructed
    /\ ConsentConstructed
    /\ LifeIdle
    /\ FlowConstructed
    /\ VadConstructed
    /\ SpeechConstructed
    /\ AllowConstructed
    /\ VideoConstructed
    /\ PoolConstructed
    /\ ShutdownConstructed

LocksNext ==
    \/ \E t \in Threads, m \in Mutexes : LockRequest(t, m)
    \/ \E t \in Threads : LockAcquire(t)
    \/ \E t \in Threads : LockReenter(t)
    \/ \E t \in Threads, m \in Mutexes : LockRelease(t, m)
    \/ \E t \in Threads : QueueWait(t)
    \/ \E t \in Threads : OracleCall(t)
    \/ \E t \in Threads : BlockingReturns(t)

LocksSpec == LocksInit /\ [][LocksNext]_vars

(***************************************************************************)
(* The Speech Workers as a pool: WHISPER_THREADS workers are given the     *)
(* same speech queue (pipeline.py lines 113-120), a DROP_OLDEST queue      *)
(* (lines 63-66) that the VAD puts into.  queue.Queue.get removes and       *)
(* returns the head under the queue's own mutex, in one step.              *)
(***************************************************************************)
\* base.py line 35 in the worker's run(): stop -> cleanup(), else iterate
PoolLoop(w) ==
    /\ pool_pc[w] = "loop"
    /\ pool_pc' = [pool_pc EXCEPT ![w] = IF pool_stop THEN "drain" ELSE "get"]
    /\ UNCHANGED <<pool_segment, pool_stop, hand_offs, transcriptions, consents>>
    /\ UNCHANGED <<queueVars, consentVars, otherThanPool>>

\* what a get of worker w does to the queue and to the worker: the head, if there is
\* one, is removed from the queue and returned
PoolTake(w, found, empty) ==
    IF queue # <<>>
      THEN /\ pool_segment' = [pool_segment EXCEPT ![w] = <<Head(queue)>>]
           /\ queue' = Tail(queue)
           /\ hand_offs' = [hand_offs EXCEPT ![Head(queue)] = @ + 1]
           /\ pool_pc' = [pool_pc EXCEPT ![w] = found]
      ELSE /\ pool_pc' = [pool_pc EXCEPT ![w] = empty]
           /\ UNCHANGED <<pool_segment, queue, hand_offs>>

\* (variant of PoolGet: the head is returned and left in the queue)
PoolGetLeavesHead(w) ==
    /\ pool_pc[w] = "get"
    /\ IF queue # <<>>
         THEN /\ pool_segment' = [pool_segment EXCEPT ![w] = <<Head(queue)>>]
              /\ hand_offs' = [hand_offs EXCEPT ![Head(queue)] = @ + 1]
              /\ pool_pc' = [pool_pc EXCEPT ![w] = "transcribe"]
         ELSE /\ pool_pc' = [pool_pc EXCEPT ![w] = "loop"]
              /\ UNCHANGED <<pool_segment, hand_offs>>
    /\ UNCHANGED <<pool_stop, transcriptions, consents>>
    /\ UNCHANGED <<strategy, maxsize, queue, dropped_count, lock, ppc, cpc, offered, rets,
                   consumed, evicted, cleared, solo>>
    /\ UNCHANGED <<consentVars, otherThanPool>>

\* process_iteration, speech_worker.py lines 52-55: input_queue.get(timeout)
PoolGet(w) ==
    /\ pool_pc[w] = "get"
    /\ PoolTake(w, "transcribe", "loop")
    /\ UNCHANGED <<pool_stop, transcriptions, consents>>
    /\ UNCHANGED <<strategy, maxsize, dropped_count, lock, ppc, cpc, offered, rets,
                   consumed, evicted, cleared, solo>>
    /\ UNCHANGED <<consentVars, otherThanPool>>

\* cleanup, speech_worker.py lines 121-128: get(timeout=0.1) until it returns None
PoolDrainGet(w) ==
    /\ pool_pc[w] = "drain"
    /\ PoolTake(w, "drain_transcribe", "done")
    /\ UNCHANGED <<pool_stop, transcriptions, consents>>
    /\ UNCHANGED <<strategy, maxsize, dropped_count, lock, ppc, cpc, offered, rets,
                   consumed, evicted, cleared, solo>>
    /\ UNCHANGED <<consentVars, otherThanPool>>

\* _transcribe_segment, speech_worker.py lines 64-118, called by process_iteration
\* (line 58) and by cleanup (line 126): the segment is dropped above the depth
\* threshold, or transcribed; then set_consent is called or not
PoolTranscribe(w) ==
    /\ pool_pc[w] \in {"transcribe", "drain_transcribe"}
    /\ pool_pc' = [pool_pc EXCEPT ![w] = IF @ = "transcribe" THEN "loop" ELSE "drain"]
    /\ pool_segment' = [pool_segment EXCEPT ![w] = <<>>]
    /\ LET segment == pool_segment[w][1] IN
         IF Len(queue) > QueueDepthLimit
           THEN UNCHANGED <<transcriptions, consents, consentVars>>
           ELSE /\ transcriptions' = [transcriptions EXCEPT ![segment] = @ + 1]
                /\ \/ UNCHANGED <<consents, consentVars>>
                   \/ /\ consents' = [consents EXCEPT ![segment] = @ + 1]
                      /\ \E n \in Names \cup {None} : sw_set_consent(n)
    /\ UNCHANGED <<pool_stop, hand_offs>>
    /\ UNCHANGED <<queueVars, otherThanPool>>

\* BaseThread.stop of every worker (base.py lines 65-68), modelled as one event
PoolStop ==
    /\ ~pool_stop
    /\ pool_stop' = TRUE
    /\ UNCHANGED <<pool_pc, pool_segment, hand_offs, transcriptions, consents>>
    /\ UNCHANGED <<queueVars, consentVars, otherThanPool>>

\* the puts of the VAD into the speech queue, and the clear() of Pipeline._cleanup
PoolQueueStep ==
    \/ \E p \in Producers : PutDropOldest(p)
    \/ \E p \in Producers : PutDropOldestEvict(p)
    \/ \E p \in Producers : PutDropOldestEnqueue(p)
    \/ ClearStart
    \/ ClearStep

PoolInit ==
    /\ PoolConstructed
    /\ strategy = "DROP_OLDEST"
    /\ maxsize \in 1..MaxCap
    /\ queue = <<>>
    /\ dropped_count = 0
    /\ lock = "free"
    /\ ppc = [p \in Producers |-> "idle"]
    /\ cpc = "idle"
    /\ offered = [p \in Producers |-> 0]
    /\ rets = [p \in Producers |-> <<>>]
    /\ consumed = <<>>
    /\ evicted = <<>>
    /\ cleared = <<>>
    /\ solo = TRUE
    /\ ConsentConstructed
    /\ LifeIdle
    /\ FlowConstructed
    /\ VadConstructed
    /\ SpeechConstructed
    /\ AllowConstructed
    /\ LocksConstructed
    /\ VideoConstructed
    /\ ShutdownConstructed

PoolNext ==
    \/ PoolQueueStep
    \/ \E w \in Workers : PoolLoop(w)
    \/ \E w \in Workers : PoolGet(w)
    \/ \E w \in Workers : PoolDrainGet(w)
    \/ \E w \in Workers : PoolTranscribe(w)
    \/ PoolStop

PoolSpec == PoolInit /\ [][PoolNext]_vars

(***************************************************************************)
(* ShutdownHandler (misc/shutdown.py).  initiate_shutdown is called by     *)
(* Pipeline.stop (pipeline.py line 191) and by the signal handler (lines   *)
(* 33-36).  A Python signal handler runs on the main thread, between two   *)
(* steps of whatever the main thread is doing, and that work goes on only  *)
(* after the handler has returned: the calls in progress on the main       *)
(* thread form a stack, and only the innermost one takes steps.            *)
(***************************************************************************)
Reverse(q) == [i \in 1..Len(q) |-> q[Len(q) + 1 - i]]

OnMain(c) == \E i \in 1..Len(main_stack) : main_stack[i] = c

\* the thread of call c is not inside a signal handler that interrupted c
CanRun(c) == OnMain(c) => main_stack[Len(main_stack)] = c

\* the call returns: on the main thread the interrupted work goes on
ReturnFrom(c) ==
    /\ callpc' = [callpc EXCEPT ![c] = "returned"]
    /\ main_stack' = IF OnMain(c) THEN SubSeq(main_stack, 1, Len(main_stack) - 1)
                     ELSE main_stack

\* _signal_handler, lines 33-36 (or Pipeline.stop called on the main thread while it
\* is in no other call): initiate_shutdown is entered on the main thread
CallOnMain(c) ==
    /\ callpc[c] = "idle"
    /\ callpc' = [callpc EXCEPT ![c] = "acquire"]
    /\ main_stack' = Append(main_stack, c)
    /\ UNCHANGED <<shutdown_event, shutdown_in_progress, handler_lock,
                   cleanup_callbacks, raising, executing, ran>>
    /\ UNCHANGED otherThanShut

\* Pipeline.stop, pipeline.py line 191, called on a thread other than the main one
CallOnOtherThread(c) ==
    /\ callpc[c] = "idle"
    /\ callpc' = [callpc EXCEPT ![c] = "acquire"]
    /\ UNCHANGED <<shutdown_event, shutdown_in_progress, handler_lock,
                   cleanup_callbacks, raising, main_stack, executing, ran>>
    /\ UNCHANGED otherThanShut

\* initiate_shutdown, line 39: with self._lock (threading.Lock, not re-entrant)
InitiateAcquire(c) ==
    /\ callpc[c] = "acquire"
    /\ CanRun(c)
    /\ handler_lock = 0
    /\ handler_lock' = c
    /\ callpc' = [callpc EXCEPT ![c] = "check"]
    /\ UNCHANGED <<shutdown_event, shutdown_in_progress, cleanup_callbacks, raising,
                   main_stack, executing, ran>>
    /\ UNCHANGED otherThanShut

\* lines 40-43: a shutdown in progress: the warning, then return; otherwise
\* _shutdown_in_progress = True
InitiateCheck(c) ==
    /\ callpc[c] = "check"
    /\ CanRun(c)
    /\ IF shutdown_in_progress
         THEN /\ callpc' = [callpc EXCEPT ![c] = "already"]
              /\ UNCHANGED shutdown_in_progress
         ELSE /\ shutdown_in_progress' = TRUE
              /\ callpc' = [callpc EXCEPT ![c] = "release"]
    /\ UNCHANGED <<shutdown_event, handler_lock, cleanup_callbacks, raising,
                   main_stack, executing, ran>>
    /\ UNCHANGED otherThanShut

\* line 42: return inside the with block: the lock is released
InitiateAlready(c) ==
    /\ callpc[c] = "already"
    /\ CanRun(c)
    /\ handler_lock' = 0
    /\ ReturnFrom(c)
    /\ UNCHANGED <<shutdown_event, shutdown_in_progress, cleanup_callbacks, raising,
                   executing, ran>>
    /\ UNCHANGED otherThanShut

\* end of the with block of lines 39-43
InitiateRelease(c) ==
    /\ callpc[c] = "release"
    /\ CanRun(c)
    /\ handler_lock' = 0
    /\ callpc' = [callpc EXCEPT ![c] = "set"]
    /\ UNCHANGED <<shutdown_event, shutdown_in_progress, cleanup_callbacks, raising,
                   main_stack, executing, ran>>
    /\ UNCHANGED otherThanShut

\* line 45: self._shutdown_event.set()
InitiateSet(c) ==
    /\ callpc[c] = "set"
    /\ CanRun(c)
    /\ shutdown_event' = TRUE
    /\ callpc' = [callpc EXCEPT ![c] = "start_thread"]
    /\ UNCHANGED <<shutdown_in_progress, handler_lock, cleanup_callbacks, raising,
                   main_stack, executing, ran>>
    /\ UNCHANGED otherThanShut

\* line 47: the thread that runs _execute_cleanup is started, and the call returns
InitiateStartThread(c) ==
    /\ callpc[c] = "start_thread"
    /\ CanRun(c)
    /\ executing' = [executing EXCEPT ![c] = 1]
    /\ ReturnFrom(c)
    /\ UNCHANGED <<shutdown_event, shutdown_in_progress, handler_lock,
                   cleanup_callbacks, raising, ran>>
    /\ UNCHANGED otherThanShut

\* _execute_cleanup, lines 52-56: the next callback of reversed(_cleanup_callbacks) is
\* called; an error it raises is logged and the loop goes on
ExecuteCleanup(c) ==
    /\ executing[c] \in 1..Len(cleanup_callbacks)
    /\ LET callback == Reverse(cleanup_callbacks)[executing[c]]
       IN /\ ran' = Append(ran, callback)
          /\ executing' = [executing EXCEPT ![c] = @ + 1]
    /\ UNCHANGED <<shutdown_event, shutdown_in_progress, handler_lock,
                   cleanup_callbacks, raising, callpc, main_stack>>
    /\ UNCHANGED otherThanShut

\* the registrations made before the first call (register_cleanup, lines 60-62): one
\* to MaxCallbacks callbacks in their registration order; raising holds the ones whose
\* call raises, which _execute_cleanup treats like the others (lines 55-56)
CallbackLists ==
    UNION {{q \in [1..n -> Callbacks] : \A i, j \in 1..n : i # j => q[i] # q[j]} :
             n \in 1..MaxCallbacks}

ShutdownInit ==
    /\ shutdown_event = FALSE
    /\ shutdown_in_progress = FALSE
    /\ handler_lock = 0
    /\ cleanup_callbacks \in CallbackLists
    /\ raising \in SUBSET Callbacks
    /\ callpc = [c \in Calls |-> "idle"]
    /\ main_stack = <<>>
    /\ executing = [c \in Calls |-> 0]
    /\ ran = <<>>
    /\ QueueConstructed
    /\ ConsentConstructed
    /\ LifeIdle
    /\ FlowConstructed
    /\ VadConstructed
    /\ SpeechConstructed
    /\ AllowConstructed
    /\ LocksConstructed
    /\ VideoConstructed
    /\ PoolConstructed

\* the steps of the calls made and of the cleanup threads started
ShutdownStep ==
    \/ \E c \in Calls : InitiateAcquire(c)
    \/ \E c \in Calls : InitiateCheck(c)
    \/ \E c \in Calls : InitiateAlready(c)
    \/ \E c \in Calls : InitiateRelease(c)
    \/ \E c \in Calls : InitiateSet(c)
    \/ \E c \in Calls : InitiateStartThread(c)
    \/ \E c \in Calls : ExecuteCleanup(c)

ShutdownNext ==
    \/ \E c \in Calls : CallOnMain(c)
    \/ \E c \in Calls : CallOnOtherThread(c)
    \/ ShutdownStep

ShutdownSpec == ShutdownInit /\ [][ShutdownNext]_vars

(***************************************************************************)
(* Properties of BoundedQueue.                                             *)
(***************************************************************************)

\* items k = n-c+1 .. n of producer p, oldest first
LastItems(p, n, c) == [i \in 1..c |-> <<p, n - c + i>>]

\* no get or clear has removed anything and no clear is running
NoConsumer == consumed = <<>> /\ cleared = <<>> /\ cpc = "idle"

AllIdle == \A p \in Producers : ppc[p] = "idle"

\* the finished put calls that returned False
FalseReturns(p) == Cardinality({k \in 1..Len(rets[p]) : ~rets[p][k]})
FalseCount == LET f == [p \in Producers |-> FalseReturns(p)] IN SumOver(f, Producers)

\* C1: DROP_OLDEST, capacity C, one producer, no get or clear while it puts:
\* after N > C puts the queue holds exactly the last C items put, oldest first,
\* and the gets that follow return them in that order.
C1_DropOldestKeepsLastC ==
    \A p \in Producers :
        ( /\ strategy = "DROP_OLDEST"
          /\ solo /\ cleared = <<>> /\ cpc = "idle"
          /\ ppc[p] = "idle"
          /\ offered[p] = TotalOffered
          /\ offered[p] > maxsize )
        => consumed \o queue = LastItems(p, offered[p], maxsize)

C1_Witness ==
    /\ strategy = "DROP_OLDEST" /\ maxsize = 2
    /\ solo /\ cleared = <<>> /\ cpc = "idle"
    /\ ppc["p1"] = "idle" /\ offered["p1"] = 3 /\ offered["p2"] = 0
    /\ queue = <<>>
    /\ consumed = << <<"p1", 2>>, <<"p1", 3>> >>

\* C2: DROP_NEWEST: a put made while the queue is full returns False, leaves the
\* queue as it is and adds exactly one to the dropped counter; an accepted put
\* leaves the counter alone; the counter never decreases.
C2_PutStep(p) ==
    /\ (ppc[p] = "idle" /\ offered'[p] = offered[p] + 1) =>
          IF Len(queue) >= maxsize
            THEN /\ ppc'[p] = "dn_full"
                 /\ queue' = queue
                 /\ rets'[p] = rets[p]
            ELSE /\ ppc'[p] = "idle"
                 /\ rets'[p] = Append(rets[p], TRUE)
                 /\ queue' = Append(queue, <<p, offered'[p]>>)
                 /\ dropped_count' = dropped_count
    /\ (ppc[p] = "dn_full" /\ ppc'[p] # "dn_full") =>
          /\ rets'[p] = Append(rets[p], FALSE)
          /\ queue' = queue
          /\ dropped_count' = dropped_count + 1

C2_DropNewestRejects ==
    /\ [][strategy = "DROP_NEWEST" =>
            /\ \A p \in Producers : C2_PutStep(p)
            /\ dropped_count' >= dropped_count]_vars
    /\ [](strategy = "DROP_NEWEST" =>
            /\ dropped_count = FalseCount
            /\ \A p \in Producers : \A k \in 1..Len(rets[p]) :
                  rets[p][k] <=> <<p, k>> \in Range(queue) \cup Range(consumed) \cup Range(cleared))

C2_Witness ==
    /\ strategy = "DROP_NEWEST"
    /\ Len(queue) = maxsize
    /\ dropped_count = 2
    /\ \E p \in Producers : Len(rets[p]) >= 2 /\ ~rets[p][Len(rets[p])]

\* C3: DROP_OLDEST with no consumer: every put returns True and after N puts the
\* dropped count is max(0, N - C); capacity 2 after put(A), put(B), put(C) holds
\* [B, C] with dropped count 1.
C3_DropOldestCount ==
    (strategy = "DROP_OLDEST" /\ NoConsumer) =>
        /\ \A p \in Producers : \A k \in 1..Len(rets[p]) : rets[p][k]
        /\ AllIdle =>
              /\ get_dropped_count = Max(0, TotalOffered - maxsize)
              /\ Len(queue) = Min(TotalOffered, maxsize)
              /\ \A p \in Producers :
                    (maxsize = 2 /\ offered[p] = 3 /\ TotalOffered = 3) =>
                        queue = << <<p, 2>>, <<p, 3>> >> /\ get_dropped_count = 1

C3_Witness ==
    /\ strategy = "DROP_OLDEST" /\ maxsize = 2 /\ NoConsumer /\ AllIdle
    /\ offered["p1"] = 3
    /\ rets["p1"] = <<TRUE, TRUE, TRUE>>
    /\ queue = << <<"p1", 2>>, <<"p1", 3>> >>
    /\ dropped_count = 1

\* C4: DROP_OLDEST with concurrent producers and consumers: a put that finds the
\* queue full evicts exactly one item, enqueues its own, returns True and adds one
\* to the dropped counter; no put returns False or loses its item, and nothing is
\* evicted while the queue is not full.
C4_DropOldestAtomic ==
    strategy = "DROP_OLDEST" =>
        /\ \A p \in Producers : \A k \in 1..Len(rets[p]) :
              /\ rets[p][k]
              /\ <<p, k>> \in Range(queue) \cup Range(consumed) \cup Range(cleared)
                              \cup {e.item : e \in Range(evicted)}
        /\ \A e \in Range(evicted) : e.full
        /\ dropped_count = Len(evicted)

\* C5: BLOCK: a put returns False only on a timeout with the queue full, and then
\* the queue is unchanged; with room the item is enqueued and the put returns
\* True; a BLOCK put never changes the dropped counter.
C5_PutStep(p) ==
    (rets'[p] # rets[p]) =>
        \/ /\ rets'[p] = Append(rets[p], FALSE)
           /\ Len(queue) >= maxsize
           /\ queue' = queue
        \/ /\ rets'[p] = Append(rets[p], TRUE)
           /\ Len(queue) < maxsize
           /\ queue' = Append(queue, <<p, offered'[p]>>)

C5_BlockTimeout ==
    /\ [][strategy = "BLOCK" =>
            /\ \A p \in Producers : C5_PutStep(p)
            /\ dropped_count' = dropped_count]_vars
    /\ [](strategy = "BLOCK" =>
            /\ dropped_count = 0
            /\ \A p \in Producers : \A k \in 1..Len(rets[p]) :
                  rets[p][k] <=> <<p, k>> \in Range(queue) \cup Range(consumed) \cup Range(cleared))

C5_Witness ==
    /\ strategy = "BLOCK"
    /\ Len(queue) = maxsize
    /\ \E p \in Producers : rets[p] = <<TRUE, FALSE, TRUE>>

\* C6: every policy, every interleaving: the items of one producer are returned by
\* get in the order that producer put them, none of them twice.
C6_FifoPerProducer ==
    \A i, j \in 1..Len(consumed) :
        (i < j /\ consumed[i][1] = consumed[j][1]) => consumed[i][2] < consumed[j][2]

C6_Witness ==
    /\ Len(consumed) = 2
    /\ dropped_count = 1
    /\ consumed[1][1] = consumed[2][1]
    /\ consumed[2][2] = consumed[1][2] + 2

(***************************************************************************)
(* Properties of the worker lifecycle.                                     *)
(***************************************************************************)
InLoop(s) == tpc[s] \in {"loop", "heartbeat", "iter", "caught"}

\* C8: once the recorded state of a worker is ERROR or STOPPED, no later update
\* changes it to a different state (removing the entry at unregistration is allowed).
C8_TerminalStates ==
    [][\A s \in Stages :
          states[s] \in {"ERROR", "STOPPED"}
            => states'[s] \in {states[s], "unregistered"}]_vars

\* C9 as stated: a stage whose process_iteration raises on every call has
\* transitioned to ERROR once an iteration has raised.
C9_RaisingStageIsError ==
    \A s \in Stages :
        (profile[s] = "iter_raises" /\ tpc[s] = "caught") => states[s] = "ERROR"

\* C9 amended: a stage whose process_iteration raises on every call never gets the
\* recorded state ERROR; while it is in its loop its recorded state is RUNNING, or
\* STOPPING once stop() marked it; and a check of the Health Monitor made while it is
\* in its loop finds it unhealthy exactly when its last heartbeat is at least the
\* health timeout old.
C9_RaisingStageStaysRunning ==
    /\ [](\A s \in Stages : profile[s] = "iter_raises" => states[s] # "ERROR")
    /\ [](\A s \in Stages :
            (profile[s] = "iter_raises" /\ InLoop(s))
              => states[s] \in {"RUNNING", "STOPPING"})
    /\ [][\A s \in Stages :
            (profile[s] = "iter_raises" /\ InLoop(s) /\ s \in mtodo /\ s \notin mtodo')
              => /\ s \in unhealthy_threads' <=> health_age[s] >= health_timeout
                 /\ s \in newly_unhealthy'
                      => (health_age[s] >= health_timeout /\ s \notin unhealthy_threads)
                 /\ s \in recovered'
                      => (health_age[s] < health_timeout /\ s \in unhealthy_threads)]_vars

\* an iteration of the stage has raised, the stage is recorded RUNNING, and the
\* monitor's check that has just gone over it reports nothing about it
C9_Witness ==
    \E s \in Stages :
        /\ profile[s] = "iter_raises"
        /\ tpc[s] = "caught"
        /\ states[s] = "RUNNING"
        /\ mpc = "checking"
        /\ all_states[s] = "RUNNING"
        /\ s \notin mtodo
        /\ s \notin unhealthy_threads
        /\ s \notin newly_unhealthy

\* C10: when setup() of a stage raises, process_iteration of that stage is never
\* called, the stage records ERROR, its steps change neither the recorded state or
\* the position of another stage nor a stop event or the shutdown flag, and the
\* stage, once started, terminates.
C10_SetupFailureIsLocal ==
    /\ [](\A s \in Stages : profile[s] = "setup_raises" => ~InLoop(s))
    /\ [][\A s \in Stages :
            (profile[s] = "setup_raises" /\ tpc'[s] # tpc[s])
              => /\ (tpc[s] = "setup" => tpc'[s] = "fatal")
                 /\ (tpc[s] = "fatal" => states'[s] = "ERROR")
                 /\ \A o \in Stages \ {s} : states'[o] = states[o] /\ tpc'[o] = tpc[o]
                 /\ stop_event' = stop_event
                 /\ shutdown' = shutdown]_vars
    /\ \A s \in Stages :
          (profile[s] = "setup_raises" /\ tpc[s] = "started") ~> (tpc[s] = "done")

\* a stage whose setup() raised has terminated while the other stage is in an
\* iteration, recorded RUNNING, with no stop requested
C10_Witness ==
    \E s, o \in Stages :
        /\ s # o
        /\ profile[s] = "setup_raises"
        /\ tpc[s] = "done"
        /\ profile[o] = "ok"
        /\ tpc[o] = "iter"
        /\ states[o] = "RUNNING"
        /\ ~shutdown
        /\ ~stop_event[o]

\* C11: setup() is called once and before any process_iteration; cleanup() is called
\* at most once, by a step of the stage's own run(), never before the last
\* process_iteration; the step after cleanup() records STOPPED and the next one
\* removes the registry entry; a terminated stage has called cleanup() exactly once;
\* and a started stage that is asked to stop terminates.
C11_SetupAndCleanupOnce ==
    /\ [](\A s \in Stages :
            /\ setup_calls[s] <= 1 /\ cleanup_calls[s] <= 1
            /\ InLoop(s) => (setup_calls[s] = 1 /\ cleanup_calls[s] = 0)
            /\ tpc[s] \in {"finish", "unregister", "done"} <=> cleanup_calls[s] = 1
            /\ tpc[s] \in {"new", "started", "registered", "setup"} <=> setup_calls[s] = 0
            /\ tpc[s] = "done" => states[s] = "unregistered")
    /\ [][\A s \in Stages :
            /\ cleanup_calls'[s] # cleanup_calls[s]
                 => (tpc[s] = "cleanup" /\ tpc'[s] = "finish")
            /\ (tpc[s] = "finish" /\ tpc'[s] # tpc[s])
                 => (tpc'[s] = "unregister" /\ states'[s] = "STOPPED")
            /\ (tpc[s] = "unregister" /\ tpc'[s] # tpc[s])
                 => (tpc'[s] = "done" /\ states'[s] = "unregistered")]_vars
    /\ \A s \in Stages :
          (tpc[s] \notin {"new", "done"} /\ should_stop(s)) ~> (tpc[s] = "done")

\* a stage whose setup() raised and a stage whose iterations raise have both
\* terminated, each after one setup() and one cleanup() call
C11_Witness ==
    \E s, o \in Stages :
        /\ s # o
        /\ tpc[s] = "done" /\ tpc[o] = "done"
        /\ profile[s] = "setup_raises"
        /\ profile[o] = "iter_raises"
        /\ cleanup_calls[s] = 1 /\ cleanup_calls[o] = 1
        /\ setup_calls[s] = 1 /\ setup_calls[o] = 1

C14_ShutdownOrder ==
    /\ [](plpc \notin {"starting", "waiting"} => shutdown)
    /\ [](watcher_stopped => shutdown)
    /\ [](\A s \in Stages :
            (stop_event[s] \/ states[s] = "STOPPING" \/ plpc \in {"stop_mark", "stop_set"})
              => watcher_stopped)
    /\ [](\A s \in Stages :
            (join_result[s] # "none" \/ plpc = "joining")
              => \A o \in Range(threads) : stop_event[o])
    /\ [](plpc \in {"metrics", "stopped"}
            => \A s \in Range(threads) : join_result[s] # "none")
    /\ [][/\ (shutdown' /\ ~shutdown) => ~watcher_stopped
          /\ (watcher_stopped' /\ ~watcher_stopped)
               => \A s \in Stages : ~stop_event[s] /\ join_result[s] = "none"
          /\ (\E s \in Stages : stop_event'[s] /\ ~stop_event[s])
               => \A s \in Stages : join_result[s] = "none"
          /\ (\E s \in Stages : join_result'[s] # join_result[s])
               => plpc # "stopped"]_vars

\* a shutdown that ran to its end: flag, watcher, stop requests, joins, metrics
C14_Witness ==
    /\ plpc = "stopped"
    /\ shutdown
    /\ watcher_stopped
    /\ \A s \in Stages : stop_event[s] /\ join_result[s] # "none"

\* C15: whenever the Health Monitor evaluates is_healthy for a name, the answer is
\* true exactly when the name is registered, its last recorded heartbeat is strictly
\* less than the timeout old, and its state is neither ERROR nor STOPPED; the name
\* is in unhealthy_threads afterwards exactly when the answer was false.
C15_IsHealthy ==
    [][\A s \in Stages :
          (s \in mtodo /\ s \notin mtodo')
            => (s \notin unhealthy_threads'
                  <=> /\ states[s] # "unregistered"
                      /\ health_age[s] < health_timeout
                      /\ states[s] # "ERROR"
                      /\ states[s] # "STOPPED")]_vars

\* a check has just found a RUNNING stage unhealthy whose heartbeat is exactly as old
\* as the timeout
C15_Witness ==
    \E s \in Stages :
        /\ mpc = "checking"
        /\ s \in newly_unhealthy
        /\ states[s] = "RUNNING"
        /\ all_states[s] = "RUNNING"
        /\ health_age[s] = health_timeout

\* C16: a stage that was unhealthy when a health check started and is unhealthy when
\* it ends gets no alert from that check, at any level; a warning is logged only for
\* a stage that became unhealthy in the check and a recovery only for one that
\* stopped being unhealthy in it.
C16_EdgeTriggeredAlerts ==
    mpc # "checking"
      => \A s \in Stages :
            /\ (s \in unhealthy_before /\ s \in unhealthy_threads)
                 => s \notin alerts.warning \cup alerts.info \cup alerts.critical
            /\ s \in alerts.warning
                 => (s \notin unhealthy_before /\ s \in unhealthy_threads)
            /\ s \in alerts.info
                 => (s \in unhealthy_before /\ s \notin unhealthy_threads)

(***************************************************************************)
(* Properties of the video path.                                           *)
(***************************************************************************)
FlowTerminated == ipc = "done" /\ vppc = "done" /\ opc = "done" /\ kpc = "done"

\* C12: when shutdown was requested with input and output connected, then once the
\* three stages and the cleanup callback have finished, both video queues are empty.
C12_QueuesEmptyAfterShutdown ==
    (connected_at_shutdown /\ FlowTerminated)
      => (video_input_queue = <<>> /\ video_output_queue = <<>>)

\* C17: a consumer never dequeues a frame of an earlier input connection once a new
\* connection has been established: the frame the Video Processor or the Output
\* Muxer takes from its queue was decoded during the current connection.
C17_NoStaleFrames ==
    [][/\ (video_data' # video_data /\ video_data' # 0) => video_data' = connection
       /\ (out_video_data' # out_video_data /\ out_video_data' # 0)
            => out_video_data' = connection]_vars

\* C18: the Video Processor holds a dequeued frame, transforming it or about to put
\* the result on its output queue, only while ConnectionState reports the input
\* connected.
C18_ProcessOnlyWhileConnected ==
    vppc = "process" => input_connected

\* C19: the Output Muxer opens its output only in an iteration in which it saw the
\* input connected and read known stream metadata, and configures it from that
\* metadata; in the first iteration in which it sees the input disconnected with its
\* output open it closes the output; and in an iteration in which it saw the input
\* connected and read known metadata (a video and/or an audio stream) it goes on to
\* open the output.
C19_LazyOutputConnection ==
    [][/\ (output_connected' /\ ~output_connected)
            => /\ out_seen_connected
               /\ out_metadata # {}
               /\ out_stream_metadata' = out_metadata
       /\ (opc = "check" /\ opc' # "check" /\ ~input_connected /\ out_container)
            => opc' = "disconnect"
       /\ (opc = "disconnect" /\ opc' # "disconnect")
            => (~output_connected' /\ opc' = "clear")
       /\ (opc = "clear" /\ opc' # "clear") => video_output_queue' = <<>>
       /\ (opc = "connect" /\ opc' # "connect" /\ out_metadata # {})
            => opc' = "open"]_vars

(***************************************************************************)
(* Properties of the VAD.                                                  *)
(***************************************************************************)
\* index of the first chunk rated above the start threshold (0 = none)
FirstSpeech ==
    IF \E i \in 1..Len(probs) : probs[i] > start_speech_prob
      THEN CHOOSE i \in 1..Len(probs) :
             /\ probs[i] > start_speech_prob
             /\ \A j \in 1..(i - 1) : probs[j] <= start_speech_prob
      ELSE 0

\* the chunks so far are: chunks that leave the VAD silent, one chunk above the start
\* threshold, K chunks above the keep threshold, and chunks at or below the keep
\* threshold that just reach the stop duration
PatternDone(K) ==
    /\ FirstSpeech # 0
    /\ Len(probs) = FirstSpeech + K + stop_silence_samples
    /\ \A i \in (FirstSpeech + 1)..(FirstSpeech + K) : probs[i] > keep_speech_prob
    /\ \A i \in (FirstSpeech + K + 1)..Len(probs) : probs[i] <= keep_speech_prob

\* C20: after one chunk above the start threshold, K chunks above the keep threshold
\* and chunks at or below it up to the stop duration, the VAD is silent again with an
\* empty buffer and has emitted exactly one segment, from the stream time of the first
\* speech chunk to the stream time at the end of the last buffered chunk; only a
\* segment shorter than the minimum is withheld.
C20_OneSegmentPerUtterance ==
    \A K \in 0..MaxChunks :
        PatternDone(K)
          => /\ ~in_speech
             /\ speech_buffer = 0
             /\ IF 1 + K + stop_silence_samples < min_segment_samples
                  THEN segments_produced = 0 /\ speech_queue = <<>>
                  ELSE /\ segments_produced = 1
                       /\ speech_queue =
                            <<[start_time |-> FirstSpeech - 1,
                               end_time |-> Len(probs),
                               samples |-> 1 + K + stop_silence_samples]>>

(***************************************************************************)
(* Properties of the speech path.                                          *)
(***************************************************************************)
\* C21: an iteration of the VAD that finds the input disconnected resets the speech
\* buffer, the chunk buffer, the speaking flag and the silence counter and queues no
\* segment; and no queued segment holds audio of two input connections.
C21_NoSegmentAcrossConnections ==
    [][/\ (vadpc = "check" /\ vadpc' # "check" /\ ~input_connected)
            => /\ speech_buffer' = 0
               /\ ring_buffer' = {}
               /\ ~in_speech'
               /\ silence_samples' = 0
               /\ segments_produced' = segments_produced
       /\ \A i \in 1..Len(segment_connections') :
             Cardinality(segment_connections'[i]) <= 1]_vars

\* the VAD, the Speech Worker and the shutdown callback have finished
SpeechTerminated == vadpc = "done" /\ swpc = "done" /\ kpc = "done"

\* C22: the cleanup() of a VAD that is stopped while speaking with a non-empty speech
\* buffer puts one final segment on the speech queue, and once the stages have ended
\* that segment has been taken by the Speech Worker and given to _transcribe_segment.
C22_FinalSegmentConsumed ==
    [][/\ (vadpc = "cleanup" /\ vadpc' = "done" /\ in_speech /\ speech_buffer # 0)
            => /\ segments_produced' = segments_produced + 1
               /\ flushed' # <<>>
       /\ SpeechTerminated' => Range(flushed') \subseteq sw_done']_vars

(***************************************************************************)
(* Properties of the allow-list.                                           *)
(***************************************************************************)
\* some record of the list is within the distance threshold of the encoding
WithinThreshold(faces, encoding) ==
    \E i \in 1..Len(faces) :
        Dist(faces[i].encoding, encoding) <= FACE_DISTANCE_THRESHOLD

\* C23: a detected face is left unmodified exactly if an encoding was extracted for
\* it and that encoding is within the distance threshold of some record of the
\* allow-list; every other face (no match, empty list, no encoding) is anonymized.
C23_BlurUnlessRecognized ==
    \A i \in 1..Len(frame_out) :
        ~frame_out[i].blurred
          <=> \E encoding \in frame_out[i].encoding :
                 WithinThreshold(consented_faces, encoding)

\* a frame with a face F at the threshold distance of a registered record and an
\* unrelated face G: F is left as it is, G is anonymized
C23_Witness ==
    /\ Len(frame_out) = 2
    /\ consented_faces # <<>>
    /\ ~frame_out[1].blurred
    /\ \E encoding \in frame_out[1].encoding :
          \A i \in 1..Len(consented_faces) :
              Dist(consented_faces[i].encoding, encoding) = FACE_DISTANCE_THRESHOLD
    /\ frame_out[2].blurred
    /\ frame_out[2].encoding # {}

\* no directory event about file f is waiting for the watcher or being handled by it
WatcherCaughtUp(f) ==
    /\ \A i \in 1..Len(changes) : changes[i][2] # f
    /\ \A i \in 1..Len(w_change) : w_change[i][2] # f

\* C24: once a consent image has been deleted and the watcher has handled the
\* events about it, the allow-list has no record for that file and no face is
\* recognized only through such a record, whatever the interleaving of the deletion
\* with the Video Processor's capture of the same file.
C24_DeletedFileForgotten ==
    \A f \in Files :
        (f \notin on_disk /\ WatcherCaughtUp(f))
          => /\ ~HasRecord(consented_faces, f)
             /\ \A encoding \in Encodings :
                   match_face(consented_faces, encoding)
                     => match_face(WithoutFile(consented_faces, f), encoding)

\* the step in which the watcher ends the handling of one directory event
WatcherEndsEvent == w_change # <<>> /\ w_change' = <<>>

\* C26: when the watcher has handled an added or modified event for a file that is
\* there, the allow-list holds a record for the file only if the content read from
\* the file yielded an encoding (a prior record was removed first); after a deleted
\* event it holds no record for the file; the records of other files are as before.
C26_WatcherEventEffect ==
    [][WatcherEndsEvent
         => LET kind == w_change[1][1]
                f == w_change[1][2]
            IN /\ (kind \in {"added", "modified"} /\ f \in on_disk')
                    => (HasRecord(consented_faces', f) => w_encoding' # {})
               /\ kind = "deleted" => ~HasRecord(consented_faces', f)
               /\ WithoutFile(consented_faces', f) = WithoutFile(consented_faces, f)]_vars

\* at most one record of the allow-list per consent file
OneRecordPerFile ==
    \A f \in Files :
        Cardinality({i \in 1..Len(consented_faces) :
                       consented_faces[i].file_path = f}) <= 1

\* C27: the allow-list never holds two records for one consent file, and whenever
\* the watcher has handled every directory event each record's file is on disk.
C27_RecordsMatchDirectory ==
    /\ OneRecordPerFile
    /\ (changes = <<>> /\ w_change = <<>>)
         => \A i \in 1..Len(consented_faces) : consented_faces[i].file_path \in on_disk

(***************************************************************************)
(* Properties of backpressure.                                             *)
(***************************************************************************)
\* the put calls that have returned, all producers together
PutsReturned == SumOver([p \in Producers |-> Len(rets[p])], Producers)

\* C25: on a queue with a drop policy every put returns True or False (a full queue
\* raises nothing), and every item given to a put that has returned is still queued,
\* was returned by get, was removed by clear, or is counted in the dropped counter:
\* returned puts = queued + got + cleared + dropped counter.
C25_DropsAreCounted ==
    strategy \in {"DROP_OLDEST", "DROP_NEWEST"}
      => /\ \A p \in Producers : \A i \in 1..Len(rets[p]) : rets[p][i] \in BOOLEAN
         /\ PutsReturned
              = Len(queue) + Len(consumed) + Len(cleared) + get_dropped_count

C29_DroppedFrameMetric ==
    (strategy = "DROP_OLDEST" /\ \A p \in Producers : ppc[p] = "idle")
      => frames_dropped = PutsReturned - Len(queue) - Len(consumed) - Len(cleared)

(***************************************************************************)
(* Properties of a failing iteration.                                      *)
(***************************************************************************)
\* C30: a raising process_iteration is caught without a change of the recorded
\* state; when the error is caught with no stop requested the recorded state is
\* RUNNING and stays so, cleanup() has not been and is not called, and the stage goes
\* back to the loop test, from where, still with no stop requested, it goes through
\* the heartbeat to the next process_iteration; when a stop has been requested at
\* the catch the stage leaves the loop for cleanup() without another iteration.
C30_IterationErrorIsTransient ==
    /\ [](\A s \in Stages :
            (tpc[s] = "caught" /\ ~should_stop(s))
              => (states[s] = "RUNNING" /\ cleanup_calls[s] = 0))
    /\ [][\A s \in Stages :
            /\ (profile[s] = "iter_raises" /\ tpc[s] = "iter" /\ tpc'[s] # "iter")
                 => /\ tpc'[s] = "caught"
                    /\ states'[s] = states[s]
                    /\ cleanup_calls'[s] = cleanup_calls[s]
            /\ (tpc[s] = "caught" /\ tpc'[s] # "caught")
                 => IF should_stop(s)
                      THEN tpc'[s] = "cleanup"
                      ELSE /\ tpc'[s] = "loop"
                           /\ states'[s] = "RUNNING"
                           /\ cleanup_calls'[s] = 0
            /\ (tpc[s] = "loop" /\ tpc'[s] # "loop" /\ ~should_stop(s))
                 => tpc'[s] = "heartbeat"
            /\ (tpc[s] = "heartbeat" /\ tpc'[s] # "heartbeat")
                 => tpc'[s] = "iter"]_vars

\* an iteration of one stage has raised with no stop requested: the stage is
\* recorded RUNNING and has not run cleanup(), while the other stage works normally
C30_Witness ==
    \E s \in Stages :
        /\ profile[s] = "iter_raises"
        /\ tpc[s] = "caught"
        /\ ~should_stop(s)
        /\ states[s] = "RUNNING"
        /\ cleanup_calls[s] = 0
        /\ \E t \in Stages \ {s} : profile[t] = "ok" /\ tpc[t] = "iter"

(***************************************************************************)
(* Properties of the Output Muxer's error path.                            *)
(***************************************************************************)
\* C31: a write to the output that fails, for a video frame or for an audio frame,
\* is followed in the same iteration by _disconnect, which closes the container,
\* marks the output disconnected and clears the output queue before the iteration
\* returns.
C31_WriteErrorDisconnects ==
    [][/\ (opc = "write" /\ opc' \notin {"write", "audio"}) => opc' = "disconnect"
       /\ (opc = "audio_error" /\ opc' # "audio_error") => opc' = "disconnect"
       /\ (opc = "disconnect" /\ opc' # "disconnect")
            => (~out_container' /\ ~output_connected' /\ opc' = "clear")
       /\ (opc = "clear" /\ opc' # "clear")
            => (video_output_queue' = <<>> /\ opc' = "loop")]_vars

(***************************************************************************)
(* Properties of cancellation.                                             *)
(***************************************************************************)
StageEnded == ipc = "done" /\ vppc = "done" /\ opc = "done"

IsPrefix(p, q) == Len(p) <= Len(q) /\ \A i \in 1..Len(p) : p[i] = q[i]

\* C36: the callbacks are invoked in reverse registration order, none twice and none
\* skipped after one that raises; the flag, once set, stays set; and however many
\* calls of initiate_shutdown are made, once a call was made and no call or cleanup
\* thread can take another step, every callback has been invoked exactly once.
C36_CallbacksOnceInReverse ==
    /\ [](IsPrefix(ran, Reverse(cleanup_callbacks)))
    /\ [][shutdown_event => shutdown_event']_vars
    /\ []((/\ \E c \in Calls : callpc[c] # "idle"
           /\ ~ENABLED ShutdownStep)
            => ran = Reverse(cleanup_callbacks))

(***************************************************************************)
(* Properties of the queue's size.                                         *)
(***************************************************************************)
\* C37: under every overflow policy and interleaving of puts, gets and clear(), the
\* queue holds between 0 and maxsize items, and maxsize never changes.
C37_SizeWithinCapacity ==
    /\ [](Len(queue) \in 0..maxsize)
    /\ [][maxsize' = maxsize]_vars

\* a queue of more than one place was offered an item while full, evicted its head
\* and is full again
C37_Witness ==
    /\ maxsize > 1
    /\ Len(queue) = maxsize
    /\ evicted # <<>>

(***************************************************************************)
(* Properties of the Speech Worker's error handling.                       *)
(***************************************************************************)
OracleError(did) == did # <<>> /\ did[1].error # "none"

\* C35: when the transcription or the consent detection raises for a segment, the
\* consent state is left as it was and the worker goes back to its loop; after such
\* an error the worker, unless told to stop, dequeues the segment at the head of the
\* queue and handles it as any other: dropped above the depth threshold, transcribed
\* otherwise.
C35_OracleErrorIsContained ==
    [][/\ (swpc \in {"transcribe", "drain_transcribe"} /\ swpc' # swpc
             /\ OracleError(sw_last'))
          => /\ UNCHANGED consentVars
             /\ swpc' = IF swpc = "transcribe" THEN "loop" ELSE "drain"
       /\ (OracleError(sw_last) /\ swpc = "loop" /\ swpc' # "loop" /\ ~shutdown)
          => swpc' = "get"
       /\ (OracleError(sw_last) /\ swpc = "get" /\ swpc' # "get" /\ speech_queue # <<>>)
          => (swpc' = "transcribe" /\ sw_segment' = <<Head(speech_queue)>>)
       /\ (OracleError(sw_last) /\ swpc = "transcribe" /\ swpc' # "transcribe")
          => /\ sw_done' = sw_done \cup Range(sw_segment)
             /\ sw_last'[1].dropped <=> sw_last'[1].depth > QueueDepthLimit
             /\ ~sw_last'[1].dropped => sw_last'[1].transcribed]_vars

\* the consent detection raised for the second segment or a later one, and the
\* worker has dequeued the next segment
C35_Witness ==
    /\ OracleError(sw_last)
    /\ sw_last[1].error = "detect"
    /\ Cardinality(sw_done) > 1
    /\ swpc = "transcribe"

(***************************************************************************)
(* Properties of the pool of Speech Workers.                               *)
(***************************************************************************)
\* C34: with several Speech Workers on one speech queue, drain loops included, every
\* segment is handed to at most one worker, once: it is transcribed at most once and
\* causes at most one set_consent call; and no two workers hold the same segment.
C34_SegmentHandedOnce ==
    /\ \A x \in PoolItems :
         hand_offs[x] <= 1 /\ transcriptions[x] <= 1 /\ consents[x] <= 1
    /\ \A v, w \in Workers :
         (v # w /\ pool_segment[v] # <<>>) => pool_segment[v] # pool_segment[w]

\* a segment raised a consent event, and two workers hold a segment each, one
\* dequeued in the loop and one in the drain loop
C34_Witness ==
    /\ \E v, w \in Workers : pool_pc[v] = "transcribe" /\ pool_pc[w] = "drain_transcribe"
    /\ \E x \in PoolItems : consents[x] = 1

(***************************************************************************)
(* Properties of consent events and their capture.                         *)
(***************************************************************************)
EventEntered(e) == \E f \in 1..vframe : <<f, e>> \in entered

\* C38: no consent event is lost: every set_consent call made so far either had a
\* frame enter the capture path for it, or is still pending (the capture flag is set
\* and was last raised by that call): an earlier capture's reset_capture does not
\* erase it and a later set_consent does not replace it.
C38_NoConsentEventLost ==
    \A e \in 1..nEvents :
        EventEntered(e) \/ (capture_next_frame /\ flagEvent = e)

\* C39: every finished capture registered its embedding under the name its image
\* file was saved under, also when set_consent gave another name meanwhile.
C39_FileAndRegistrationSameName ==
    \A c \in captureLog : c.file = c.reg

(***************************************************************************)
(* Properties of the frames the Video Processor forwards.                  *)
(***************************************************************************)
\* C40: with video processing enabled every frame put on the video output queue
\* has completed the detect-and-anonymize step; a frame whose processing could not
\* run because there is no detector is not forwarded; and a frame whose consent
\* capture ended, by an error or not, goes on to the detect-and-anonymize step.
C40_FailsClosed ==
    /\ [](~disable_video_processing
            => \A i \in 1..Len(forwarded) : forwarded[i].processed)
    /\ [][(~disable_video_processing /\ ~face_detector) => forwarded' = forwarded]_vars
    /\ [][(vpc \in {"save", "register", "reset"} /\ vpc' \notin {"save", "register", "reset"})
            => vpc' = "process"]_vars
    /\ [][(vpc = "process" /\ vpc' # "process" /\ forwarded' # forwarded)
            => forwarded' = Append(forwarded, [frame |-> vframe,
                                               processed |-> ~disable_video_processing])]_vars

\* with processing enabled, a frame was forwarded whose consent capture raised: the
\* flag its capture found is still set after the only consent event
C40_Witness ==
    /\ ~disable_video_processing
    /\ nEvents = 1
    /\ capture_next_frame
    /\ vpc = "idle"
    /\ \E i \in 1..Len(forwarded) : <<forwarded[i].frame, 1>> \in entered

(***************************************************************************)
(* Properties of the mutexes of the shared structures.                     *)
(***************************************************************************)
Holds(t) == {m \in Mutexes : mutex_owner[m] = t}

\* a set of threads each of which waits for a mutex held by a thread of the set
Deadlocked ==
    \E S \in SUBSET Threads :
        /\ S # {}
        /\ \A t \in S : lock_pc[t] = "waiting" /\ mutex_owner[wants[t]] \in S

====
